---------------------------- MODULE Spec2Model ----------------------------
(***************************************************************************)
(* Extension context, command registration and command execution of the    *)
(* Extraterm render process.                                               *)
(*                                                                         *)
(* Spec      : dynamic command contributions of the "internal-commands"    *)
(*             extension context (ExtensionContextImpl) and the per-session *)
(*             commands built by startUpSessions.                          *)
(* SpecIpc   : command execution requested over IPC (handleExecuteCommand);*)
(*             SpecIpcFair adds the event loop's fairness.                 *)
(* SpecContext : the context's own methods (tab title widgets, backend,    *)
(*             dispose).                                                   *)
(* SpecCommands : calls that reach the context's CommandsRegistry          *)
(*             (_setCommandMenu, registerCommand, executeCommand).         *)
(* SpecExec  : SpecIpc and command execution by input events               *)
(*             (handleKeyCapture, handleHyperlinkClick).                   *)
(*                                                                         *)
(* The render process is single threaded: every event handler runs to      *)
(* completion, so one handler is one action; an async function is cut at   *)
(* its awaits.                                                             *)
(***************************************************************************)
EXTENDS Integers, Sequences, FiniteSets, TLC

VARIABLES
  commands,               \* _extensionMetadata.contributes.commands (a list of contribution objects)
  commandToMenuEntryMap,  \* CommandsRegistry._commandToMenuEntryMap: command id -> list of menu entries
  commandToFunctionMap,   \* CommandsRegistry: command id -> registered handler
  commandsByCategory,     \* KeybindingsSettings: the command set its subscriber built at the last notification
  disposables,            \* the disposables handed out by _registerCommandContribution, by contribution oid
  holder,                 \* startUpSessions: the DisposableHolder's list (contribution oids)
  lastOp,                 \* observation of the last _registerCommandContribution / dispose call
  tabTitleWidgetFactoryMap, \* ExtensionContextImpl.#tabTitleWidgetFactoryMap: widget name -> factory
  configurationDisposed,  \* has configuration.dispose() been called
  lastCall,               \* observation of the last call of another method of the context
  sessionConfig,          \* configDatabase: the session configuration (session uuids), as last changed
  codec,                  \* one per-session command id: the session uuid, the id built, the args parsed back
  sanitation,             \* the persisted config database and the runs of sanitizeAndIinitializeConfigs on it
  keybindings,            \* KeybindingsManagerImpl, and the key-input recording of KeybindingsSettings
  distribution,           \* distributeUserStoredConfig: the config database of the main process and its onChange handler
  settingsUi,             \* KeybindingsSettings: its extension manager, its subscription, the UI's commandsByCategory
  aboutExtension,         \* the About extension: aboutTab and the tabs it has created
  sharedMapIpc,           \* setupSharedMap: the shared map's change events and the events sent over IPC
  configApply,            \* applyConfiguration: the config database, the module's variables, the invocations
  fieldCall,              \* one call of sanitizeField / sanitizeStringEnumField: its arguments and its result
  requests,               \* EXECUTE_COMMAND_REQUEST messages, in arrival order
  pc,                     \* per request: where its handleExecuteCommand invocation is
  promise,                \* per request: state of the promise its command handler returned
  responses,              \* WebIpc.commandResponse calls, in the order sent
  escaped,                \* per request: did handleExecuteCommand's promise reject (failure propagated)
  lastKey                 \* observation of the last handleKeyCapture / handleHyperlinkClick call

\* The variables of the machines that stand beside the extension context.
\* The variables of the keybindings manager, the main process' config handler, the
\* keybindings settings, the About extension and the shared map.
lateVars == <<keybindings, distribution, settingsUi, aboutExtension, sharedMapIpc>>

auxVars == <<codec, sanitation, fieldCall, configApply, lateVars>>

\* The variables of the extension context and its registries.
contextVars == <<commands, commandToMenuEntryMap, commandToFunctionMap, commandsByCategory,
                 disposables, holder, lastOp, tabTitleWidgetFactoryMap, configurationDisposed,
                 lastCall, sessionConfig>>

regVars == <<commands, commandToMenuEntryMap, commandToFunctionMap, commandsByCategory,
             disposables, holder, lastOp, tabTitleWidgetFactoryMap, configurationDisposed,
             lastCall, sessionConfig, auxVars>>
execVars == <<requests, pc, promise, responses, escaped, lastKey>>
vars == <<commands, commandToMenuEntryMap, commandToFunctionMap, commandsByCategory,
          disposables, holder, lastOp, tabTitleWidgetFactoryMap, configurationDisposed,
          lastCall, sessionConfig, requests, pc, promise, responses, escaped, lastKey,
          auxVars>>

---------------------------------------------------------------------------
(* Bounds of the model *)

\* contribution objects registered through _registerCommandContribution in one run
MaxContributions == 3
\* sessions in one session configuration
MaxSessions == 2
\* how often one disposable is disposed
MaxDisposals == 2
\* EXECUTE_COMMAND_REQUEST messages received in one run
MaxRequests == 2
\* characters of a session uuid
MaxUuidLen == 2
\* elements of a persisted session or command line action array
MaxConfigElements == 2
\* starts of the application on one persisted configuration
MaxStartUps == 2
\* changes of the configuration after the start
MaxChanges == 2
\* keybindings mapping objects handed to the keybindings manager
MaxMappings == 3
MaxConfigEvents == 2
MaxAssignments == 3
MaxTabs == 4
MaxOpens == 3
MaxSharedMapChanges == 3

---------------------------------------------------------------------------
(* Values *)

Max(a, b) == IF a >= b THEN a ELSE b
Min(a, b) == IF a <= b THEN a ELSE b

\* A command id is a string; it is modelled as a tuple so that the id of a
\* per-session command can carry the session uuid it was built from.
CommandId(name) == <<name>>

\* part_000:681  "extraterm:window.newTerminal?" + encodeURIComponent(JSON.stringify(args))
SessionCommandId(sessionUuid) == <<"extraterm:window.newTerminal?", sessionUuid>>

MenuTypes == {"contextMenu", "commandPalette", "emptyPane", "newTerminal", "windowMenu"}

\* A contribution object: oid stands for the object's identity (indexOf compares by identity).
Contribution(oid, command) == [oid |-> oid, command |-> command]
NoContribution == Contribution(0, <<>>)

StaticA == Contribution(1, CommandId("ext:a"))
StaticB == Contribution(2, CommandId("ext:b"))
\* The manifest's command list.
InitCommands == <<StaticA, StaticB>>
NumStatic == Len(InitCommands)

\* The menu entry CommandsRegistry keeps for a contribution, with the default placement flags.
DefaultMenuEntry(c) ==
  [contribution |-> c.oid, contextMenu |-> FALSE, commandPalette |-> TRUE,
   emptyPane |-> FALSE, newTerminal |-> FALSE, windowMenu |-> FALSE]

\* CommandsRegistry after construction from the manifest's commands and menus.
InitMenuMap == (StaticA.command :> <<DefaultMenuEntry(StaticA)>>) @@
               (StaticB.command :> <<DefaultMenuEntry(StaticB)>>)

\* Handlers registered at start up (registerCommands); "ext:b" is declared in the
\* manifest but has no function registered (see _debugRegisteredCommands).
HandlerOf(c) == <<"handler", c.oid>>
NoFunction == <<>>
InitFuncMap == (StaticA.command :> HandlerOf(StaticA))

\* Command ids a caller of _registerCommandContribution may pass: new ids and one the manifest declares.
DynamicCommandIds == {CommandId("ext:c"), CommandId("ext:d"), CommandId("ext:a")}

SessionUuids == {"u1", "u2"}

\* The observation of an input event before any input event: the query result, the
\* commands executed, what executeCommand returned, whether an exception left the
\* handler, the warnings logged (each the list of ids it names), and whether the event
\* was stopped.
NoKey == [event |-> "none", filtered |-> <<>>, executed |-> <<>>, returned |-> "null",
          escaped |-> FALSE, warned |-> <<>>, stopped |-> FALSE]

\* The manifest's tab title widget contributions, in declaration order.
TabTitleWidgetsMeta ==
  <<[name |-> "w2", css |-> "css2"], [name |-> "w1", css |-> "css1"],
    [name |-> "w3", css |-> "css3"]>>

\* Names an extension may pass to registerTabTitleWidget: the declared ones and one the
\* manifest does not declare.
WidgetNames == {"w1", "w2", "w3", "unknown"}

\* Factory functions an extension may pass (the same one may be given under two names).
WidgetFactories == {"f1", "f2"}

\* `new Map<string, TabTitleWidgetFactory>()`
NoFactories == <<>>

\* Handler functions a caller of registerCommand may pass.
CommandFunctions == {<<"handler", 1>>, <<"handler", 2>>}

\* The observation of a call of the context before any call: the method, its arguments,
\* what it did that is visible outside (log lines, calls of collaborators, the throw), in
\* order, what it returned, and the context's state when it was called.
NoCall == [kind |-> "none", args |-> <<>>, steps |-> <<>>, returned |-> <<>>,
           threw |-> FALSE, before |-> <<>>]

RECURSIVE SeqsUpTo(_, _)
SeqsUpTo(S, n) ==
  IF n = 0 THEN {<<>>}
  ELSE LET shorter == SeqsUpTo(S, n - 1)
       IN shorter \cup {Append(s, x) : s \in {t \in shorter : Len(t) = n - 1}, x \in S}

\* Session configurations: lists of session uuids (two sessions may carry the same uuid,
\* sanitizeSessionConfig only replaces a missing or non-string uuid).
SessionConfigs == SeqsUpTo(SessionUuids, MaxSessions)

---------------------------------------------------------------------------
(* The extension context as a value: the operations below are functions on it. *)

ContextState ==
  [commands |-> commands, menu |-> commandToMenuEntryMap, func |-> commandToFunctionMap,
   view |-> commandsByCategory, disposables |-> disposables, holder |-> holder,
   op |-> lastOp, widgets |-> tabTitleWidgetFactoryMap,
   configurationDisposed |-> configurationDisposed, call |-> lastCall,
   sessionConfig |-> sessionConfig]

Delete(f, k) == [x \in DOMAIN f \ {k} |-> f[x]]
Put(f, k, v) == (k :> v) @@ f

\* CommandsRegistry.getCommandFunction
getCommandFunction(m, command) ==
  IF command \in DOMAIN m.func THEN m.func[command] ELSE NoFunction

\* ExtensionManager.queryCommands({}): the full command set, in declaration order.
queryCommands(m) ==
  SelectSeq(m.commands, LAMBDA c : c.command \in DOMAIN m.menu)

\* KeybindingsSettings: the onCommandsChanged subscriber rebuilds its command set.
onCommandsChanged(m) == [m EXCEPT !.view = queryCommands(m)]

\* The contribution objects the registry holds a menu entry of.
RegisteredContributions(menu) ==
  UNION {{menu[id][i].contribution : i \in 1..Len(menu[id])} : id \in DOMAIN menu}

\* ExtensionManager.commandRegistrationChanged: synchronous fan-out to the subscribers.
commandRegistrationChanged(m) ==
  LET m1 == onCommandsChanged(m)
  IN [m1 EXCEPT !.op.steps = Append(@, "commandRegistrationChanged"),
                !.op.atNotify = [commands |-> m.commands, registry |-> DOMAIN m.menu,
                                 contributions |-> RegisteredContributions(m.menu)]]

\* Array.prototype.push on the metadata's command list
pushCommand(m, c) ==
  [m EXCEPT !.commands = Append(@, c), !.op.steps = Append(@, "push")]

\* CommandsRegistry.registerCommandContribution: (re-)registration overwrites the entry of the id.
registerCommandContribution(m, c) ==
  [m EXCEPT !.menu = Put(@, c.command, <<DefaultMenuEntry(c)>>),
            !.func = Put(@, c.command, HandlerOf(c)),
            !.op.steps = Append(@, "registerCommandContribution")]

\* The disposable CommandsRegistry.registerCommandContribution returned: removes the id from the registry.
commandDisposableDispose(m, c) ==
  [m EXCEPT !.menu = Delete(@, c.command),
            !.func = Delete(@, c.command),
            !.op.steps = Append(@, "commandDisposable.dispose")]

\* Array.prototype.indexOf: the 0-based index of the first element identical to c, or -1.
indexOf(list, c) ==
  IF \E i \in 1..Len(list) : list[i] = c
    THEN (CHOOSE i \in 1..Len(list) : list[i] = c /\ \A j \in 1..(i - 1) : list[j] # c) - 1
    ELSE -1

\* Array.prototype.splice(index, deleteCount): a negative index counts from the end.
splice(list, index, deleteCount) ==
  LET len == Len(list)
      start == IF index < 0 THEN Max(len + index, 0) ELSE Min(index, len)
      count == Min(Max(deleteCount, 0), len - start)
  IN [i \in 1..(len - count) |-> IF i <= start THEN list[i] ELSE list[i + count]]

StartOp(m, kind, c) ==
  [m EXCEPT !.op = [kind |-> kind, c |-> c, steps |-> <<>>, before |-> m.commands,
                    atNotify |-> [commands |-> <<>>, registry |-> {}, contributions |-> {}]]]

\* Faulty variant of _registerCommandContribution: notifies before it appends and registers.
RegisterCommandContributionMutantNotifyFirst(m, c, bySession) ==
  LET m0 == StartOp(m, "register", c)
      m1 == commandRegistrationChanged(m0)
      m2 == pushCommand(m1, c)
      m3 == registerCommandContribution(m2, c)
  IN [m3 EXCEPT !.disposables = Put(@, c.oid, [c |-> c, count |-> 0, session |-> bySession])]

\* ExtensionContextImpl._registerCommandContribution (the returned disposable is recorded in m.disposables)
RegisterCommandContribution(m, c, bySession) ==
  LET m0 == StartOp(m, "register", c)
      m1 == pushCommand(m0, c)
      m2 == registerCommandContribution(m1, c)
      m3 == commandRegistrationChanged(m2)
  IN [m3 EXCEPT !.disposables = Put(@, c.oid, [c |-> c, count |-> 0, session |-> bySession])]

\* The dispose() of the disposable _registerCommandContribution returned.
DisposeContribution(m, c) ==
  LET m0 == StartOp(m, "dispose", c)
      m1 == commandRegistrationChanged(m0)
      m2 == commandDisposableDispose(m1, c)
      index == indexOf(m2.commands, c)
      m3 == [m2 EXCEPT !.commands = splice(@, index, 1), !.op.steps = Append(@, "splice")]
  IN [m3 EXCEPT !.disposables[c.oid].count = Min(@ + 1, MaxDisposals)]

\* Faulty variant: the flag is switched on whatever `on` is.
SetCommandMenuMutantAlwaysOn(m, command, menuType, on) ==
  IF command \notin DOMAIN m.menu
    THEN m
    ELSE [m EXCEPT !.menu[command] =
            [i \in 1..Len(@) |-> [@[i] EXCEPT ![menuType] = TRUE]]]

\* Faulty variant: the flag is set on the entries of every command.
SetCommandMenuMutantAllCommands(m, command, menuType, on) ==
  IF command \notin DOMAIN m.menu
    THEN m
    ELSE [m EXCEPT !.menu =
            [id \in DOMAIN @ |-> [i \in 1..Len(@[id]) |-> [@[id][i] EXCEPT ![menuType] = on]]]]

\* ExtensionContextImpl._setCommandMenu
SetCommandMenu(m, command, menuType, on) ==
  IF command \notin DOMAIN m.menu
    THEN m
    ELSE [m EXCEPT !.menu[command] =
            [i \in 1..Len(@) |-> [@[i] EXCEPT ![menuType] = on]]]

\* The oid of the next contribution object created.
NextOid(m) == NumStatic + Cardinality(DOMAIN m.disposables) + 1

\* startUpSessions.createSessionCommands: the loop body for one session
CreateSessionCommand(m, sessionUuid) ==
  LET command == SessionCommandId(sessionUuid)
      contrib == Contribution(NextOid(m), command)
      m1 == RegisterCommandContribution(m, contrib, TRUE)
      m2 == [m1 EXCEPT !.holder = Append(@, contrib.oid)]
      m3 == SetCommandMenu(m2, command, "contextMenu", FALSE)
      m4 == SetCommandMenu(m3, command, "commandPalette", TRUE)
      m5 == SetCommandMenu(m4, command, "emptyPane", TRUE)
      m6 == SetCommandMenu(m5, command, "newTerminal", TRUE)
  IN SetCommandMenu(m6, command, "windowMenu", TRUE)

RECURSIVE CreateSessionCommands(_, _)
CreateSessionCommands(m, sessionConfigs) ==
  IF sessionConfigs = <<>> THEN m
  ELSE CreateSessionCommands(CreateSessionCommand(m, Head(sessionConfigs)), Tail(sessionConfigs))

\* DisposableHolder.dispose: disposes what it holds, in the order added, and forgets it.
RECURSIVE DisposeAll(_, _)
DisposeAll(m, oids) ==
  IF oids = <<>> THEN m
  ELSE DisposeAll(DisposeContribution(m, m.disposables[Head(oids)].c), Tail(oids))

HolderDispose(m) == [DisposeAll(m, m.holder) EXCEPT !.holder = <<>>]

\* Faulty variant: the commands of the earlier configuration are not disposed.
OnSessionConfigChangeMutantNoDispose(m, newConfig) ==
  CreateSessionCommands(m, newConfig)

\* startUpSessions: the configDatabase.onChange handler for a SESSION_CONFIG event
OnSessionConfigChange(m, newConfig) ==
  CreateSessionCommands(HolderDispose(m), newConfig)

---------------------------------------------------------------------------
(* Spec: registrations and disposals *)

NoOp == [kind |-> "none", c |-> NoContribution, steps |-> <<>>, before |-> <<>>,
         atNotify |-> [commands |-> <<>>, registry |-> {}, contributions |-> {}]]

InitContext ==
  /\ commands = InitCommands
  /\ commandToMenuEntryMap = InitMenuMap
  /\ commandToFunctionMap = InitFuncMap
  /\ commandsByCategory = InitCommands
  /\ disposables = <<>>
  /\ holder = <<>>
  /\ lastOp = NoOp
  /\ tabTitleWidgetFactoryMap = NoFactories
  /\ configurationDisposed = FALSE
  /\ lastCall = NoCall
  /\ sessionConfig = <<>>

InitExecIdle ==
  /\ requests = <<>>
  /\ pc = <<>>
  /\ promise = <<>>
  /\ responses = <<>>
  /\ escaped = <<>>
  /\ lastKey = NoKey

Install(m) ==
  /\ commands' = m.commands
  /\ commandToMenuEntryMap' = m.menu
  /\ commandToFunctionMap' = m.func
  /\ commandsByCategory' = m.view
  /\ disposables' = m.disposables
  /\ holder' = m.holder
  /\ lastOp' = m.op
  /\ tabTitleWidgetFactoryMap' = m.widgets
  /\ configurationDisposed' = m.configurationDisposed
  /\ lastCall' = m.call
  /\ sessionConfig' = m.sessionConfig
  /\ UNCHANGED auxVars

Registered == Cardinality(DOMAIN disposables)

\* The host registers a dynamic command contribution.
Register ==
  /\ Registered < MaxContributions
  /\ \E command \in DynamicCommandIds :
       Install(RegisterCommandContribution(
                 ContextState, Contribution(NextOid(ContextState), command), FALSE))
  /\ UNCHANGED execVars

\* The holder of a disposable disposes it.
Dispose ==
  /\ \E o \in DOMAIN disposables :
       /\ ~disposables[o].session
       /\ disposables[o].count < MaxDisposals
       /\ Install(DisposeContribution(ContextState, disposables[o].c))
  /\ UNCHANGED execVars

\* A SESSION_CONFIG change event (also the initial createSessionCommands call, whose holder is empty).
SessionConfigChange ==
  /\ \E cfg \in SessionConfigs :
       /\ Registered + Len(cfg) <= MaxContributions
       /\ Install(OnSessionConfigChange([ContextState EXCEPT !.sessionConfig = cfg], cfg))
  /\ UNCHANGED execVars

\* No command id is being built.
NoCodec == [stage |-> "none", sessionUuid |-> <<>>, command |-> <<>>, args |-> [error |-> "none"]]

InitCodecIdle == codec = NoCodec

\* A stored configuration: null, a value that is no array, or an array / an object.
NoConfig == [kind |-> "null", value |-> <<>>]
NotAnArray == [kind |-> "object", value |-> <<>>]
ArrayConfig(elements) == [kind |-> "array", value |-> elements]
ObjectConfig(object) == [kind |-> "config", value |-> object]

\* The config database: the general, the session and the command line action config.
Database(general, session, commandLineAction) ==
  [general |-> general, session |-> session, commandLineAction |-> commandLineAction]

NoDatabase == Database(NoConfig, NoConfig, NoConfig)
NoSanitation ==
  [db |-> NoDatabase, platform |-> "none", runs |-> 0, threw |-> FALSE, distributed |-> FALSE,
   uuids |-> 0, before |-> NoDatabase, beforeThrew |-> FALSE]

InitSanitationIdle == sanitation = NoSanitation

NoFieldCall ==
  [fn |-> "none", object |-> <<>>, key |-> "", defaultValue |-> <<>>, availableValues |-> {},
   result |-> <<>>, done |-> FALSE]

InitFieldCallIdle == fieldCall = NoFieldCall

NoConfigApply ==
  [stage |-> "none",
   db |-> [system |-> [isNull |-> TRUE, flatKeybindingsSet |-> ""],
           general |-> [isNull |-> TRUE, uiScalePercent |-> 0, terminalFont |-> "", terminalFontSize |-> 0,
                        themeTerminal |-> "", cursorStyle |-> ""]],
   oldGeneralConfig |-> [isNull |-> TRUE, uiScalePercent |-> 0, terminalFont |-> "", terminalFontSize |-> 0,
                         themeTerminal |-> "", cursorStyle |-> ""],
   oldSystemConfig |-> [isNull |-> TRUE, flatKeybindingsSet |-> ""],
   keybindingsMapping |-> "",
   terminalVisualConfig |-> [isNull |-> TRUE, cursorStyle |-> "", fontFamily |-> "", fontSizePx |-> 0,
                             terminalTheme |-> ""],
   uiVisualConfig |-> [isNull |-> TRUE, cursorStyle |-> "", fontFamily |-> "", fontSizePx |-> 0,
                       terminalTheme |-> ""],
   rootFontScale |-> 0, cssVars |-> <<>>, issued |-> {}, invocations |-> <<>>, changes |-> 0,
   last |-> [early |-> FALSE, before |-> <<>>]]

InitApplyIdle == configApply = NoConfigApply

NoKeybindings ==
  [stage |-> "none", mapping |-> 0, mappings |-> <<>>, enabled |-> TRUE, fired |-> 0,
   globalKeybindings |-> "unset", settingsManager |-> FALSE, recording |-> FALSE,
   managerAtStart |-> FALSE, requested |-> TRUE,
   last |-> [call |-> "none", fired |-> 0]]
InitKeybindingsIdle == keybindings = NoKeybindings

NoDistribution ==
  [stage |-> "none",
   systemConfig |-> [flatKeybindingsSet |-> [extends |-> "none", bindings |-> <<"none", "bindings">>],
                     titleBarStyle |-> "native"],
   written |-> 0, notified |-> <<>>, events |-> 0,
   last |-> [event |-> [key |-> "none",
                        oldConfig |-> [null |-> TRUE, keybindingsName |-> "none"],
                        newConfig |-> [null |-> TRUE, keybindingsName |-> "none"]],
             written |-> 0,
             systemConfig |-> [flatKeybindingsSet |-> [extends |-> "none",
                                                       bindings |-> <<"none", "bindings">>],
                               titleBarStyle |-> "native"]]]
InitDistributionIdle == distribution = NoDistribution

NoSettingsUi ==
  [stage |-> "none", extensionManager |-> 0, managers |-> <<<<>>, <<>>>>, subscriptions |-> <<>>,
   commandChangedDisposable |-> 0, liveAtSubscribe |-> 0, listenerRuns |-> 0,
   commandsByCategory |-> [category \in {"global", "window", "terminal"} |-> <<>>],
   last |-> "none"]
InitSettingsUiIdle == settingsUi = NoSettingsUi

NoAboutExtension ==
  [stage |-> "none", aboutTab |-> 0, tabs |-> <<>>,
   last |-> [call |-> "none", aboutTab |-> 0, tabs |-> 0, existing |-> 0, opens |-> 0]]
InitAboutExtensionIdle == aboutExtension = NoAboutExtension

NoSharedMapIpc ==
  [stage |-> "none", handler |-> FALSE, listening |-> FALSE,
   map |-> [key \in {"k1", "k2"} |-> 0], changes |-> <<>>, sent |-> <<>>]
InitSharedMapIpcIdle == sharedMapIpc = NoSharedMapIpc

InitLateIdle ==
  /\ InitKeybindingsIdle /\ InitDistributionIdle /\ InitSettingsUiIdle
  /\ InitAboutExtensionIdle /\ InitSharedMapIpcIdle

InitAuxIdle ==
  InitCodecIdle /\ InitSanitationIdle /\ InitFieldCallIdle /\ InitApplyIdle /\ InitLateIdle

InitEarlierIdle ==
  /\ InitContext /\ InitExecIdle /\ InitCodecIdle /\ InitSanitationIdle /\ InitFieldCallIdle
  /\ InitApplyIdle

\* The variables of the machines above.
earlierVars == <<contextVars, execVars, codec, sanitation, fieldCall, configApply>>

Init == InitContext /\ InitExecIdle /\ InitAuxIdle

Next == Register \/ Dispose \/ SessionConfigChange

Spec == Init /\ [][Next]_vars

---------------------------------------------------------------------------
(* SpecIpc and SpecExec: command execution *)

\* Correlation ids of EXECUTE_COMMAND_REQUEST messages (the sender makes a new one per request).
RequestUuids == {"m1", "m2", "m3"}

\* Command names a request or a key binding may carry: a registered command and a
\* declared command without a registered function.
ExecCommandNames == {StaticA.command, StaticB.command}

\* What a command handler does when invoked: return a value, throw, or return a promise.
HandlerBehaviours ==
  {[kind |-> "return", value |-> "v"], [kind |-> "throw", value |-> "thrown"],
   [kind |-> "promise", value |-> "promise"]}

\* How a returned promise settles.
Settlements == {[state |-> "resolved", value |-> "v"], [state |-> "rejected", value |-> "rejection"]}

\* ExtensionManager.executeCommand: looks up the handler and invokes it; an id without
\* a registered handler yields a "not found" error value.
executeCommand(m, commandName, behaviour) ==
  IF getCommandFunction(m, commandName) = NoFunction
    THEN [kind |-> "return", value |-> "notfound"]
    ELSE behaviour

\* Faulty variant: the returned promise is not awaited.
AwaitsResultMutantNoAwait(out) == FALSE

\* handleExecuteCommand: `if (result instanceof Promise) { result = await result; }`
AwaitsResult(out) == out.kind = "promise"

\* Faulty variant: the value executeCommand returned is not kept.
TryExecuteMutantDropsResult(out) ==
  CASE out.kind = "throw" -> [result |-> "null", exception |-> out.value, at |-> "respond",
                            outcome |-> out.kind]
    [] AwaitsResult(out) -> [result |-> out.value, exception |-> "null", at |-> "await",
                            outcome |-> out.kind]
    [] OTHER -> [result |-> "null", exception |-> "null", at |-> "respond",
                            outcome |-> out.kind]

\* handleExecuteCommand, the try block up to the await: the locals after it
TryExecute(out) ==
  CASE out.kind = "throw" -> [result |-> "null", exception |-> out.value, at |-> "respond",
                            outcome |-> out.kind]
    [] AwaitsResult(out) -> [result |-> out.value, exception |-> "null", at |-> "await",
                            outcome |-> out.kind]
    [] OTHER -> [result |-> out.value, exception |-> "null", at |-> "respond",
                            outcome |-> out.kind]

\* Faulty variant: no catch clause, a rejection propagates to the caller.
AfterAwaitMutantNoCatch(frame, settled) ==
  IF settled.state = "resolved"
    THEN [frame EXCEPT !.result = settled.value, !.at = "respond"]
    ELSE [frame EXCEPT !.at = "propagate"]

\* handleExecuteCommand, `result = await result` and the catch clause: a rejection
\* leaves `result` as it was (the promise) and sets `exception`.
AfterAwait(frame, settled) ==
  IF settled.state = "resolved"
    THEN [frame EXCEPT !.result = settled.value, !.at = "respond"]
    ELSE [frame EXCEPT !.exception = settled.value, !.at = "respond"]

\* handleExecuteCommand: `WebIpc.commandResponse(msg.uuid, result, exception)`
CommandResponse(i, frame) ==
  [req |-> i, uuid |-> requests[i].uuid, result |-> frame.result, exception |-> frame.exception]

\* Faulty variant: an invocation waits until the earlier invocations are over.
ReadyToRunMutantSerialized(i) ==
  /\ pc[i].at = "later"
  /\ \A j \in 1..(i - 1) : pc[j].at = "done"

\* registerIpcHandlers: every message starts its own handleExecuteCommand invocation,
\* which runs on once its `await later()` is over.
ReadyToRun(i) == pc[i].at = "later"

NoFrame == [at |-> "later", result |-> "null", exception |-> "null", outcome |-> "none"]
NoPromise == [state |-> "none", value |-> "null"]

\* The invocation ends: it responds, or its failure propagates to the caller.
Finish(i, frame, outcome) ==
  /\ pc' = [pc EXCEPT ![i] = [frame EXCEPT !.at = "done", !.outcome = outcome]]
  /\ IF frame.at = "respond"
       THEN /\ responses' = Append(responses, CommandResponse(i, frame))
            /\ UNCHANGED escaped
       ELSE /\ escaped' = [escaped EXCEPT ![i] = TRUE]
            /\ UNCHANGED responses

\* An EXECUTE_COMMAND_REQUEST message arrives: handleExecuteCommand starts and suspends at `await later()`.
Receive ==
  /\ Len(requests) < MaxRequests
  /\ \E uuid \in RequestUuids \ {requests[i].uuid : i \in 1..Len(requests)},
        name \in ExecCommandNames :
       requests' = Append(requests, [uuid |-> uuid, commandName |-> name])
  /\ pc' = Append(pc, NoFrame)
  /\ promise' = Append(promise, NoPromise)
  /\ escaped' = Append(escaped, FALSE)
  /\ UNCHANGED <<responses, lastKey>>
  /\ UNCHANGED regVars

\* handleExecuteCommand runs on after `await later()`: executes the command.
Resume(i) ==
  /\ i \in 1..Len(requests)
  /\ ReadyToRun(i)
  /\ \E behaviour \in HandlerBehaviours :
       LET out == executeCommand(ContextState, requests[i].commandName, behaviour)
           frame == TryExecute(out)
       IN IF frame.at = "await"
            THEN /\ pc' = [pc EXCEPT ![i] = frame]
                 /\ promise' = [promise EXCEPT ![i] = [state |-> "pending", value |-> "null"]]
                 /\ UNCHANGED <<responses, escaped>>
            ELSE /\ Finish(i, frame, out.kind)
                 /\ UNCHANGED promise
  /\ UNCHANGED <<requests, lastKey>>
  /\ UNCHANGED regVars

\* The promise a command handler returned settles.
Settle(i) ==
  /\ i \in 1..Len(requests)
  /\ promise[i].state = "pending"
  /\ \E s \in Settlements : promise' = [promise EXCEPT ![i] = s]
  /\ UNCHANGED <<requests, pc, responses, escaped, lastKey>>
  /\ UNCHANGED regVars

\* handleExecuteCommand runs on after `await result`.
Continue(i) ==
  /\ i \in 1..Len(requests)
  /\ pc[i].at = "await"
  /\ promise[i].state \in {"resolved", "rejected"}
  /\ Finish(i, AfterAwait(pc[i], promise[i]), pc[i].outcome)
  /\ UNCHANGED <<requests, promise, lastKey>>
  /\ UNCHANGED regVars

\* `filteredCommands.map(fc => fc.command)`
CommandIdsOf(filtered) == [i \in 1..Len(filtered) |-> filtered[i].command]

\* Faulty variant: executes the last match instead of the first.
HandleKeyCaptureMutantLastMatch(m, filtered, behaviour) ==
  IF Len(filtered) # 0
    THEN LET warned == IF Len(filtered) # 1 THEN <<CommandIdsOf(filtered)>> ELSE <<>>
             out == executeCommand(m, filtered[Len(filtered)].command, behaviour)
         IN IF out.kind = "throw"
              THEN [event |-> "key", filtered |-> filtered,
                    executed |-> <<filtered[Len(filtered)].command>>,
                    returned |-> "null", escaped |-> TRUE, warned |-> warned, stopped |-> FALSE]
              ELSE [event |-> "key", filtered |-> filtered,
                    executed |-> <<filtered[Len(filtered)].command>>,
                    returned |-> out.value, escaped |-> FALSE, warned |-> warned, stopped |-> TRUE]
    ELSE [NoKey EXCEPT !.event = "key", !.filtered = filtered]

\* handleKeyCapture for a key event whose filtered command query returned `filtered`
HandleKeyCapture(m, filtered, behaviour) ==
  IF Len(filtered) # 0
    THEN LET warned == IF Len(filtered) # 1 THEN <<CommandIdsOf(filtered)>> ELSE <<>>
             out == executeCommand(m, filtered[1].command, behaviour)
         IN IF out.kind = "throw"
              THEN [event |-> "key", filtered |-> filtered,
                    executed |-> <<filtered[1].command>>,
                    returned |-> "null", escaped |-> TRUE, warned |-> warned, stopped |-> FALSE]
              ELSE [event |-> "key", filtered |-> filtered,
                    executed |-> <<filtered[1].command>>,
                    returned |-> out.value, escaped |-> FALSE, warned |-> warned, stopped |-> TRUE]
    ELSE [NoKey EXCEPT !.event = "key", !.filtered = filtered]

\* handleHyperlinkClick for a click whose command query (category "hyperlink") returned
\* `entries`: nothing is logged and the event is not stopped.
HandleHyperlinkClick(m, entries, behaviour) ==
  IF Len(entries) = 0
    THEN [NoKey EXCEPT !.event = "hyperlink", !.filtered = entries]
    ELSE LET commandName == entries[1].command
             out == executeCommand(m, commandName, behaviour)
         IN IF out.kind = "throw"
              THEN [event |-> "hyperlink", filtered |-> entries, executed |-> <<commandName>>,
                    returned |-> "null", escaped |-> TRUE, warned |-> <<>>, stopped |-> FALSE]
              ELSE [event |-> "hyperlink", filtered |-> entries, executed |-> <<commandName>>,
                    returned |-> out.value, escaped |-> FALSE, warned |-> <<>>, stopped |-> FALSE]

\* The commands the query of an input event returns: those of `matching` (bound to the
\* key, or of category "hyperlink") that are enabled, in the order queryCommands returns them.
QueryMatching(m, matching) == SelectSeq(queryCommands(m), LAMBDA c : c.command \in matching)

\* A key event.
KeyCapture ==
  /\ \E matching \in SUBSET ExecCommandNames, behaviour \in HandlerBehaviours :
       lastKey' = HandleKeyCapture(ContextState, QueryMatching(ContextState, matching), behaviour)
  /\ UNCHANGED <<requests, pc, promise, responses, escaped>>
  /\ UNCHANGED regVars

\* A click on a hyperlink.
HyperlinkClick ==
  /\ \E matching \in SUBSET ExecCommandNames, behaviour \in HandlerBehaviours :
       lastKey' = HandleHyperlinkClick(ContextState, QueryMatching(ContextState, matching), behaviour)
  /\ UNCHANGED <<requests, pc, promise, responses, escaped>>
  /\ UNCHANGED regVars

NextIpc ==
  \/ Receive
  \/ \E i \in 1..MaxRequests : Resume(i)
  \/ \E i \in 1..MaxRequests : Settle(i)
  \/ \E i \in 1..MaxRequests : Continue(i)

\* Command execution requested over IPC only.
SpecIpc == Init /\ [][NextIpc]_vars

\* The event loop runs every continuation that is ready: the timer of later() fires and
\* the continuation of a settled promise is run. Nothing makes a handler's promise settle.
SpecIpcFair ==
  /\ SpecIpc
  /\ \A i \in 1..MaxRequests : WF_vars(Resume(i)) /\ WF_vars(Continue(i))

NextExec == NextIpc \/ KeyCapture \/ HyperlinkClick

\* Command execution requested over IPC and by input events (keys, hyperlink clicks).
SpecExec == Init /\ [][NextExec]_vars

---------------------------------------------------------------------------
(* SpecCodec: the command id of a per-session command. A string is a sequence of   *)
(* characters; a character is a one-character string, or a name for a run of       *)
(* characters that every function here passes through unchanged as a whole.        *)

\* A non-ASCII character (e with acute accent).
EAcute == "U+00E9"

\* Characters a session uuid may be made of (sanitizeSessionConfig accepts any string):
\* a letter, and the characters JSON, URL encoding and the id's own syntax treat specially.
UuidChars == {"a", "\"", "\\", "%", "?", EAcute}

Uuids == SeqsUpTo(UuidChars, MaxUuidLen)

\* The characters encodeURIComponent escapes, with their code points.
CodePoint ==
  ("\"" :> 34) @@ ("%" :> 37) @@ (":" :> 58) @@ ("?" :> 63) @@ ("\\" :> 92) @@
  ("{" :> 123) @@ ("}" :> 125) @@ (EAcute :> 233)

HexDigits == <<"0", "1", "2", "3", "4", "5", "6", "7", "8", "9", "A", "B", "C", "D", "E", "F">>
IsHexDigit(ch) == \E i \in 1..Len(HexDigits) : HexDigits[i] = ch
HexValue(ch) == (CHOOSE i \in 1..Len(HexDigits) : HexDigits[i] = ch) - 1

RECURSIVE Flatten(_)
Flatten(seqs) == IF seqs = <<>> THEN <<>> ELSE Head(seqs) \o Flatten(Tail(seqs))

\* JSON.stringify of one character of a string value
QuoteJSONChar(ch) ==
  CASE ch = "\"" -> <<"\\", "\"">>
    [] ch = "\\" -> <<"\\", "\\">>
    [] OTHER -> <<ch>>

\* JSON.stringify({sessionUuid: sessionUuid})
JSONStringify(args) ==
  <<"{", "\"", "sessionUuid", "\"", ":", "\"">> \o
  Flatten([i \in 1..Len(args.sessionUuid) |-> QuoteJSONChar(args.sessionUuid[i])]) \o
  <<"\"", "}">>

\* The UTF-8 bytes of a code point below U+0800.
Utf8(cp) == IF cp < 128 THEN <<cp>> ELSE <<192 + (cp \div 64), 128 + (cp % 64)>>

PercentEscape(byte) == <<"%", HexDigits[(byte \div 16) + 1], HexDigits[(byte % 16) + 1]>>

\* Faulty variant: '%' is left as it is.
EncodeURICharMutantKeepsPercent(ch) ==
  IF ch \in DOMAIN CodePoint /\ ch # "%"
    THEN LET bytes == Utf8(CodePoint[ch])
         IN Flatten([i \in 1..Len(bytes) |-> PercentEscape(bytes[i])])
    ELSE <<ch>>

\* encodeURIComponent of one character: letters and digits pass, the others become
\* the percent escapes of their UTF-8 bytes.
EncodeURIChar(ch) ==
  IF ch \in DOMAIN CodePoint
    THEN LET bytes == Utf8(CodePoint[ch])
         IN Flatten([i \in 1..Len(bytes) |-> PercentEscape(bytes[i])])
    ELSE <<ch>>

encodeURIComponent(str) == Flatten([i \in 1..Len(str) |-> EncodeURIChar(str[i])])

\* part_000:681  "extraterm:window.newTerminal?" + encodeURIComponent(JSON.stringify(args))
NewTerminalCommand(sessionUuid) ==
  <<"extraterm:window.newTerminal", "?">> \o
  encodeURIComponent(JSONStringify([sessionUuid |-> sessionUuid]))

URIError == <<"URIError">>
SyntaxError == <<"SyntaxError">>

CharOfCodePoint(cp) ==
  IF \E ch \in DOMAIN CodePoint : CodePoint[ch] = cp
    THEN <<CHOOSE ch \in DOMAIN CodePoint : CodePoint[ch] = cp>>
    ELSE URIError

\* The bytes of the percent escapes at the head of str: <<bytes, rest>>.
RECURSIVE EscapedBytes(_)
EscapedBytes(str) ==
  IF Len(str) >= 3 /\ str[1] = "%" /\ IsHexDigit(str[2]) /\ IsHexDigit(str[3])
    THEN LET more == EscapedBytes(SubSeq(str, 4, Len(str)))
         IN <<(<<16 * HexValue(str[2]) + HexValue(str[3])>>) \o more[1], more[2]>>
    ELSE <<(<<>>), str>>

\* The characters a run of UTF-8 bytes stands for, or URIError.
RECURSIVE DecodeUtf8(_)
DecodeUtf8(bytes) ==
  IF bytes = <<>> THEN <<>>
  ELSE LET b == bytes[1]
           one == b < 128
           two == b >= 192 /\ b < 224 /\ Len(bytes) >= 2 /\ bytes[2] >= 128 /\ bytes[2] < 192
           ch == IF one THEN CharOfCodePoint(b)
                 ELSE IF two THEN CharOfCodePoint((b - 192) * 64 + (bytes[2] - 128))
                 ELSE URIError
           rest == IF ch = URIError THEN URIError
                   ELSE DecodeUtf8(SubSeq(bytes, IF one THEN 2 ELSE 3, Len(bytes)))
       IN IF ch = URIError \/ rest = URIError THEN URIError ELSE ch \o rest

\* decodeURIComponent: percent escapes become the characters of their bytes; a '%'
\* that starts no escape, or bytes that are no UTF-8, make it throw URIError.
RECURSIVE decodeURIComponent(_)
decodeURIComponent(str) ==
  IF str = <<>> THEN <<>>
  ELSE IF str[1] = "%"
    THEN LET split == EscapedBytes(str)
             chars == IF split[1] = <<>> THEN URIError ELSE DecodeUtf8(split[1])
             rest == IF chars = URIError THEN URIError ELSE decodeURIComponent(split[2])
         IN IF chars = URIError \/ rest = URIError THEN URIError ELSE chars \o rest
    ELSE LET rest == decodeURIComponent(Tail(str))
         IN IF rest = URIError THEN URIError ELSE <<str[1]>> \o rest

\* JSON.parse of the characters of a string value up to its closing quote:
\* <<value, rest after the quote>>, or SyntaxError.
RECURSIVE ParseJSONString(_)
ParseJSONString(str) ==
  IF str = <<>> THEN SyntaxError
  ELSE IF str[1] = "\"" THEN <<(<<>>), Tail(str)>>
  ELSE IF str[1] = "\\"
    THEN IF Len(str) >= 2 /\ str[2] \in {"\"", "\\"}
           THEN LET more == ParseJSONString(SubSeq(str, 3, Len(str)))
                IN IF more = SyntaxError THEN SyntaxError ELSE <<(<<str[2]>>) \o more[1], more[2]>>
           ELSE SyntaxError
    ELSE LET more == ParseJSONString(Tail(str))
         IN IF more = SyntaxError THEN SyntaxError ELSE <<(<<str[1]>>) \o more[1], more[2]>>

\* JSON.parse of the text of an args object: the object, or the error thrown
JSONParse(str) ==
  LET opening == <<"{", "\"", "sessionUuid", "\"", ":", "\"">>
  IN IF Len(str) >= Len(opening) /\ SubSeq(str, 1, Len(opening)) = opening
       THEN LET value == ParseJSONString(SubSeq(str, Len(opening) + 1, Len(str)))
            IN IF value # SyntaxError /\ value[2] = <<"}">>
                 THEN [sessionUuid |-> value[1]]
                 ELSE [error |-> "SyntaxError"]
       ELSE [error |-> "SyntaxError"]

\* The text of a command id after its first '?'.
ArgumentSuffix(command) ==
  LET at == CHOOSE i \in 1..Len(command) : command[i] = "?" /\ \A j \in 1..(i - 1) : command[j] # "?"
  IN SubSeq(command, at + 1, Len(command))

\* The receiver of a command id with arguments: URL-decodes and JSON-parses the suffix;
\* the args object, or the error thrown.
ParseCommandArguments(command) ==
  LET text == decodeURIComponent(ArgumentSuffix(command))
  IN IF text = URIError THEN [error |-> "URIError"] ELSE JSONParse(text)

\* A session uuid of the session configuration.
InitCodec ==
  /\ InitContext
  /\ InitExecIdle
  /\ InitSanitationIdle /\ InitFieldCallIdle /\ InitApplyIdle /\ InitLateIdle
  /\ codec \in {[NoCodec EXCEPT !.stage = "session", !.sessionUuid = u] : u \in Uuids}

\* createSessionCommands builds the command id of the session.
BuildCommandId ==
  /\ codec.stage = "session"
  /\ codec' = [codec EXCEPT !.stage = "command", !.command = NewTerminalCommand(codec.sessionUuid)]
  /\ UNCHANGED <<contextVars, execVars, sanitation, fieldCall, configApply, lateVars>>

\* The command is executed: its arguments are parsed back from the id.
ParseCommandId ==
  /\ codec.stage = "command"
  /\ codec' = [codec EXCEPT !.stage = "parsed", !.args = ParseCommandArguments(codec.command)]
  /\ UNCHANGED <<contextVars, execVars, sanitation, fieldCall, configApply, lateVars>>

NextCodec == BuildCommandId \/ ParseCommandId

SpecCodec == InitCodec /\ [][NextCodec]_vars

---------------------------------------------------------------------------
(* SpecSanitize: sanitation of the persisted configuration (MainConfig).            *)
(* A JavaScript value is a record of its kind and its payload; an object is a       *)
(* record of its properties, a missing property reading as undefined.               *)

JsValue(t, n, s, b) == [t |-> t, n |-> n, s |-> s, b |-> b]
JsUndefined == JsValue("undefined", 0, "", FALSE)
JsNull == JsValue("null", 0, "", FALSE)
JsObject == JsValue("object", 0, "", FALSE)
JsArray == JsValue("array", 0, "", FALSE)
Num(n) == JsValue("number", n, "", FALSE)
Str(s) == JsValue("string", 0, s, FALSE)
Bool(b) == JsValue("boolean", 0, "", b)

\* The typeof operator.
typeof(v) == IF v.t \in {"null", "object", "array"} THEN "object" ELSE v.t

\* `v == null`
IsNullish(v) == v.t \in {"undefined", "null"}

\* Faulty variant: a value of another type than the default's is kept.
sanitizeFieldMutantKeepsWrongType(object, key, defaultValue) ==
  IF IsNullish(object[key]) THEN [object EXCEPT ![key] = defaultValue] ELSE object

\* part_001:319 sanitizeField
sanitizeField(object, key, defaultValue) ==
  IF IsNullish(object[key]) \/ typeof(object[key]) # typeof(defaultValue)
    THEN [object EXCEPT ![key] = defaultValue]
    ELSE object

\* part_001:325 sanitizeStringEnumField
sanitizeStringEnumField(object, key, availableValues, defaultValue) ==
  IF IsNullish(object[key])
    THEN [object EXCEPT ![key] = defaultValue]
    ELSE IF object[key] \notin availableValues
      THEN [object EXCEPT ![key] = defaultValue]
      ELSE object

Strs(S) == {Str(s) : s \in S}

frameRules == Strs({"always_frame", "frame_if_lines", "never_frame"})
configCursorStyles == Strs({"block", "underscore", "beam"})
gpuDriverWorkarounds == Strs({"none", "no_blend"})
showTipsValues == Strs({"always", "daily", "never"})
marginStyles == Strs({"normal", "none", "thick", "thin"})
titleBarStyles == Strs({"compact", "native", "theme"})
windowBackgroundModes == Strs({"opaque", "blur"})
matchTypes == Strs({"name", "regexp"})

DEFAULT_TERMINALFONT == "LigaDejaVuSansMono"
KEYBINDINGS_OSX == "macos-style"
KEYBINDINGS_PC == "pc-style"
AllLogicalKeybindingsNames == {"pc-style", "pc-style-emacs", "macos-style", "macos-style-emacs"}
FALLBACK_TERMINAL_THEME == "extraterm-fallback-terminal"
FALLBACK_SYNTAX_THEME == "extraterm-fallback-syntax"
FALLBACK_GUI_THEME == "two-dark-ui"

\* process.platform
Platforms == {"darwin", "linux"}
DefaultKeybindingsName(platform) == IF platform = "darwin" THEN KEYBINDINGS_OSX ELSE KEYBINDINGS_PC

\* availableFonts: the postscript names of the fonts found.
AvailableFonts == {DEFAULT_TERMINALFONT, "Hack-Regular"}

\* The theme manager's themes, with their types.
ThemeTypeOf ==
  (FALLBACK_TERMINAL_THEME :> "terminal") @@ (FALLBACK_SYNTAX_THEME :> "syntax") @@
  (FALLBACK_GUI_THEME :> "gui") @@ ("default" :> "gui") @@ ("atomic-dark-ui" :> "gui") @@
  ("solarized-terminal" :> "terminal") @@ ("solarized-syntax" :> "syntax")

NoTheme == "null"
\* ThemeManager.getTheme: the type of the theme of that name, or null.
getTheme(name) == IF name \in DOMAIN ThemeTypeOf THEN ThemeTypeOf[name] ELSE NoTheme

\* part_001:169 isThemeType
isThemeType(themeInfo, themeType) == IF themeInfo = NoTheme THEN FALSE ELSE themeInfo = themeType

MinFontSize == 4
MaxFontSize == 1024
MinUiScale == 5
MaxUiScale == 500
MinTransparency == 0
MaxTransparency == 100

\* sanitizeGeneralConfig, statement by statement: the kind of each statement, the key
\* it is about, its default and, for an enum field, the allowed values.
Step(op, key, defaultValue, allowed) ==
  [op |-> op, key |-> key, defaultValue |-> defaultValue, allowed |-> allowed]
Field(key, defaultValue) == Step("sanitizeField", key, defaultValue, {})
Enum(key, allowed, defaultValue) == Step("sanitizeStringEnumField", key, defaultValue, allowed)

GeneralSteps(platform) ==
  << Field("autoCopySelectionToClipboard", Bool(TRUE)),
     Field("blinkingCursor", Bool(FALSE)),
     Enum("cursorStyle", configCursorStyles, Str("block")),
     Field("frameByDefault", Bool(TRUE)),
     Enum("frameRule", frameRules, Str("frame_if_lines")),
     Field("frameRuleLines", Num(10)),
     Enum("gpuDriverWorkaround", gpuDriverWorkarounds, Str("none")),
     Field("isHardwareAccelerated", Bool(TRUE)),
     Step("assign", "isHardwareAccelerated", Bool(TRUE), {}),
     Field("keybindingsName", Str(DefaultKeybindingsName(platform))),
     Step("keybindingsName", "keybindingsName", Str(DefaultKeybindingsName(platform)), {}),
     Field("minimizeToTray", Bool(FALSE)),
     Field("scrollbackMaxFrames", Num(100)),
     Field("scrollbackMaxLines", Num(500000)),
     Enum("showTips", showTipsValues, Str("always")),
     Field("showTrayIcon", Bool(FALSE)),
     Field("terminalFont", Str(DEFAULT_TERMINALFONT)),
     Step("terminalFont", "terminalFont", Str(DEFAULT_TERMINALFONT), {}),
     Field("terminalFontSize", Num(13)),
     Step("clamp", "terminalFontSize", Num(13), {}),
     Field("terminalDisplayLigatures", Bool(TRUE)),
     Enum("terminalMarginStyle", marginStyles, Str("normal")),
     Field("tipCounter", Num(0)),
     Field("tipTimestamp", Num(0)),
     Enum("titleBarStyle", titleBarStyles, Str("compact")),
     Field("uiScalePercent", Num(100)),
     Step("clamp", "uiScalePercent", Num(100), {}),
     Enum("windowBackgroundMode", windowBackgroundModes, Str("opaque")),
     Field("windowBackgroundTransparencyPercent", Num(50)),
     Step("clamp", "windowBackgroundTransparencyPercent", Num(50), {}),
     Field("closeWindowWhenEmpty", Bool(TRUE)),
     Field("middleMouseButtonAction", Str("paste")),
     Field("middleMouseButtonShiftAction", Str("paste")),
     Field("middleMouseButtonControlAction", Str("paste")),
     Field("rightMouseButtonAction", Str("context_menu")),
     Field("rightMouseButtonShiftAction", Str("context_menu")),
     Field("rightMouseButtonControlAction", Str("context_menu")),
     Field("activeExtensions", JsObject),
     Field("themeTerminal", Str(FALLBACK_TERMINAL_THEME)),
     Step("theme", "themeTerminal", Str(FALLBACK_TERMINAL_THEME), {"terminal"}),
     Field("themeSyntax", Str(FALLBACK_SYNTAX_THEME)),
     Step("theme", "themeSyntax", Str(FALLBACK_SYNTAX_THEME), {"syntax"}),
     Field("themeGUI", Str(FALLBACK_GUI_THEME)),
     Step("theme", "themeGUI", Str(FALLBACK_GUI_THEME), {"gui"}) >>

GeneralKeys == {GeneralSteps("linux")[i].key : i \in 1..Len(GeneralSteps("linux"))}

\* Faulty variant: the lower limits are not applied.
ClampMutantNoLowerLimit(key, n) ==
  CASE key = "terminalFontSize" -> Min(MaxFontSize, n)
    [] key = "uiScalePercent" -> Min(MaxUiScale, IF n = 0 THEN 100 ELSE n)
    [] OTHER -> Min(MaxTransparency, n)

\* part_001:225, 239, 245: the Math.min / Math.max statements of the three numeric fields
Clamp(key, n) ==
  CASE key = "terminalFontSize" -> Max(Min(MaxFontSize, n), MinFontSize)
    [] key = "uiScalePercent" -> Min(MaxUiScale, Max(MinUiScale, IF n = 0 THEN 100 ELSE n))
    [] OTHER -> Max(Min(MaxTransparency, n), MinTransparency)

\* A theme name is kept when its theme is of the type asked for (and, for the GUI, is not "default").
ThemeAccepted(key, name, themeType) ==
  /\ ~(key = "themeGUI" /\ name = "default")
  /\ isThemeType(getTheme(name), themeType)

\* Faulty variant: a theme of another type is accepted.
SanitizeStepMutantAnyTheme(object, step) ==
  CASE step.op = "sanitizeField" -> sanitizeField(object, step.key, step.defaultValue)
    [] step.op = "sanitizeStringEnumField" ->
         sanitizeStringEnumField(object, step.key, step.allowed, step.defaultValue)
    [] step.op = "assign" -> [object EXCEPT ![step.key] = step.defaultValue]
    [] step.op = "keybindingsName" ->
         IF object[step.key].s \notin AllLogicalKeybindingsNames
           THEN [object EXCEPT ![step.key] = step.defaultValue] ELSE object
    [] step.op = "terminalFont" ->
         IF object[step.key].s \notin AvailableFonts
           THEN [object EXCEPT ![step.key] = step.defaultValue] ELSE object
    [] step.op = "clamp" -> [object EXCEPT ![step.key] = Num(Clamp(step.key, object[step.key].n))]
    [] OTHER ->
         IF getTheme(object[step.key].s) = NoTheme
           THEN [object EXCEPT ![step.key] = step.defaultValue] ELSE object

\* One statement of sanitizeGeneralConfig.
SanitizeStep(object, step) ==
  CASE step.op = "sanitizeField" -> sanitizeField(object, step.key, step.defaultValue)
    [] step.op = "sanitizeStringEnumField" ->
         sanitizeStringEnumField(object, step.key, step.allowed, step.defaultValue)
    [] step.op = "assign" -> [object EXCEPT ![step.key] = step.defaultValue]
    [] step.op = "keybindingsName" ->
         IF object[step.key].s \notin AllLogicalKeybindingsNames
           THEN [object EXCEPT ![step.key] = step.defaultValue] ELSE object
    [] step.op = "terminalFont" ->
         IF object[step.key].s \notin AvailableFonts
           THEN [object EXCEPT ![step.key] = step.defaultValue] ELSE object
    [] step.op = "clamp" -> [object EXCEPT ![step.key] = Num(Clamp(step.key, object[step.key].n))]
    [] OTHER ->
         IF ~ThemeAccepted(step.key, object[step.key].s, CHOOSE t \in step.allowed : TRUE)
           THEN [object EXCEPT ![step.key] = step.defaultValue] ELSE object

\* The statements from the i-th on, in order (each statement is evaluated before the next one).
RECURSIVE SanitizeSteps(_, _, _)
SanitizeSteps(object, steps, i) ==
  IF i > Len(steps) THEN object
  ELSE LET next == SanitizeStep(object, steps[i])
       IN IF next = object THEN SanitizeSteps(object, steps, i + 1)
          ELSE SanitizeSteps(next, steps, i + 1)

\* `{}` as a general config: every property is missing.
EmptyGeneralConfig == [key \in GeneralKeys |-> JsUndefined]

\* part_001:188 sanitizeGeneralConfig: the general config it stores.
sanitizeGeneralConfig(db, platform) ==
  LET generalConfig == IF db.general.kind = "null" THEN EmptyGeneralConfig ELSE db.general.value
  IN [db EXCEPT !.general = ObjectConfig(SanitizeSteps(generalConfig, GeneralSteps(platform), 1))]

\* An element of a stored array: null, or an object.
NullElement(keys) == [isNull |-> TRUE, fields |-> [key \in keys |-> JsUndefined]]
ObjectElement(fields) == [isNull |-> FALSE, fields |-> fields]

SessionKeys == {"name", "uuid", "type", "initialDirectory", "args", "extraField"}
CommandLineActionKeys == {"frameRule", "frameRuleLines", "match", "matchType", "extraField"}

\* createUuid(): the k-th uuid created, different from every other one.
createUuid(k) == JsValue("string", k, "created-uuid", FALSE)

\* Faulty variant: every session gets a new uuid.
SanitizeSessionMutantNewUuid(fields, uuid) ==
  LET s1 == sanitizeField(fields, "name", Str(""))
      s2 == [s1 EXCEPT !["uuid"] = uuid]
      s3 == IF typeof(s2["type"]) # "string" THEN [s2 EXCEPT !["type"] = Str("")] ELSE s2
      s4 == IF IsNullish(s3["initialDirectory"]) \/ typeof(s3["initialDirectory"]) # "string"
              THEN [s3 EXCEPT !["initialDirectory"] = JsNull] ELSE s3
  IN sanitizeField(s4, "args", Str(""))

\* part_001:284-295: the body of the loop of sanitizeSessionConfig
SanitizeSession(fields, uuid) ==
  LET s1 == sanitizeField(fields, "name", Str(""))
      s2 == sanitizeField(s1, "uuid", uuid)
      s3 == IF typeof(s2["type"]) # "string" THEN [s2 EXCEPT !["type"] = Str("")] ELSE s2
      s4 == IF IsNullish(s3["initialDirectory"]) \/ typeof(s3["initialDirectory"]) # "string"
              THEN [s3 EXCEPT !["initialDirectory"] = JsNull] ELSE s3
  IN sanitizeField(s4, "args", Str(""))

\* part_001:309-312: the body of the loop of sanitizeCommandLineActionsConfig
SanitizeCommandLineAction(fields) ==
  LET a1 == sanitizeStringEnumField(fields, "frameRule", frameRules, Str("never_frame"))
      a2 == sanitizeField(a1, "frameRuleLines", Num(5))
      a3 == sanitizeField(a2, "match", Str(""))
  IN sanitizeStringEnumField(a3, "matchType", matchTypes, Str("name"))

\* The command line actions stored when the stored value is no array.
DefaultCommandLineActions ==
  << ObjectElement([key \in CommandLineActionKeys |->
       CASE key = "frameRule" -> Str("never_frame")
         [] key = "frameRuleLines" -> Num(5)
         [] key = "match" -> Str("show")
         [] key = "matchType" -> Str("name")
         [] OTHER -> JsUndefined]) >>

\* The outcome of a sanitation function: did it throw, and the database and the number
\* of uuids created when it ended.
Outcome(threw, db, uuids) == [threw |-> threw, db |-> db, uuids |-> uuids]

\* The for-of loop of sanitizeSessionConfig: reading a property of a null element throws
\* a TypeError (createUuid() has been called by then).
RECURSIVE SanitizeSessions(_, _)
SanitizeSessions(elements, uuids) ==
  IF elements = <<>> THEN [threw |-> FALSE, elements |-> <<>>, uuids |-> uuids]
  ELSE IF Head(elements).isNull THEN [threw |-> TRUE, elements |-> elements, uuids |-> uuids]
  ELSE LET rest == SanitizeSessions(Tail(elements), uuids + 1)
       IN [rest EXCEPT !.elements =
             <<ObjectElement(SanitizeSession(Head(elements).fields, createUuid(uuids + 1)))>> \o @]

\* part_001:276 sanitizeSessionConfig
sanitizeSessionConfig(db, uuids) ==
  LET sessionConfigs == IF db.session.kind # "array" THEN <<>> ELSE db.session.value
      loop == SanitizeSessions(sessionConfigs, uuids)
  IN IF loop.threw THEN Outcome(TRUE, db, loop.uuids)
     ELSE Outcome(FALSE, [db EXCEPT !.session = ArrayConfig(loop.elements)], loop.uuids)

\* The for-of loop of sanitizeCommandLineActionsConfig.
RECURSIVE SanitizeCommandLineActions(_)
SanitizeCommandLineActions(elements) ==
  IF elements = <<>> THEN [threw |-> FALSE, elements |-> <<>>]
  ELSE IF Head(elements).isNull THEN [threw |-> TRUE, elements |-> elements]
  ELSE LET rest == SanitizeCommandLineActions(Tail(elements))
       IN [rest EXCEPT !.elements =
             <<ObjectElement(SanitizeCommandLineAction(Head(elements).fields))>> \o @]

\* part_001:301 sanitizeCommandLineActionsConfig
sanitizeCommandLineActionsConfig(db, uuids) ==
  IF db.commandLineAction.kind # "array"
    THEN Outcome(FALSE, [db EXCEPT !.commandLineAction = ArrayConfig(DefaultCommandLineActions)], uuids)
    ELSE LET loop == SanitizeCommandLineActions(db.commandLineAction.value)
         IN IF loop.threw THEN Outcome(TRUE, db, uuids)
            ELSE Outcome(FALSE, [db EXCEPT !.commandLineAction = ArrayConfig(loop.elements)], uuids)

\* part_001:176 sanitizeAndIinitializeConfigs: the three sanitations in order, then
\* distributeUserStoredConfig; an exception ends it where it is thrown.
sanitizeAndIinitializeConfigs(db, platform, uuids) ==
  LET general == sanitizeGeneralConfig(db, platform)
      session == sanitizeSessionConfig(general, uuids)
      actions == sanitizeCommandLineActionsConfig(session.db, session.uuids)
  IN IF session.threw THEN [outcome |-> session, distributed |-> FALSE]
     ELSE IF actions.threw THEN [outcome |-> actions, distributed |-> FALSE]
     ELSE [outcome |-> actions, distributed |-> TRUE]

\* The default of a key of the general config.
GeneralDefault(platform, key) ==
  LET steps == GeneralSteps(platform)
  IN steps[CHOOSE i \in 1..Len(steps) : steps[i].key = key].defaultValue

\* A valid general config, session and command line action.
ValidGeneralConfig(platform) == [key \in GeneralKeys |-> GeneralDefault(platform, key)]
ValidSession ==
  [key \in SessionKeys |->
     CASE key = "name" -> Str("bash")
       [] key = "uuid" -> Str("1234")
       [] key = "type" -> Str("unix")
       [] key = "initialDirectory" -> Str("/home")
       [] key = "args" -> Str("-l")
       [] OTHER -> Str("kept")]
ValidCommandLineAction ==
  [key \in CommandLineActionKeys |->
     CASE key = "frameRule" -> Str("always_frame")
       [] key = "frameRuleLines" -> Num(7)
       [] key = "match" -> Str("ls")
       [] key = "matchType" -> Str("regexp")
       [] OTHER -> Str("kept")]

\* The values a persisted field of the general config is given.
IntegerSamples == {-1, 0, 3, 4, 5, 13, 50, 100, 101, 500, 501, 1024, 1025}
StringSamples ==
  AllLogicalKeybindingsNames \cup AvailableFonts \cup DOMAIN ThemeTypeOf \cup
  {"junk", "", "block", "beam", "always_frame", "no_blend", "daily", "thin", "native", "blur"}
FieldSamples ==
  {JsUndefined, JsNull, JsObject, JsArray, Bool(TRUE), Bool(FALSE)} \cup
  {Num(n) : n \in IntegerSamples} \cup Strs(StringSamples)

\* The values a field of an array element is given.
ElementSamples == {JsUndefined, JsNull, Num(7), Str("x")}

GeneralInputs(platform) ==
  LET valid == ValidGeneralConfig(platform)
  IN {NoConfig, ObjectConfig(EmptyGeneralConfig)} \cup
     {ObjectConfig([valid EXCEPT ![key] = v]) : key \in GeneralKeys, v \in FieldSamples}

ElementInputs(valid, keys) ==
  {NullElement(keys)} \cup
  {ObjectElement([valid EXCEPT ![key] = v]) : key \in keys \ {"extraField"}, v \in ElementSamples}

\* The arrays of up to MaxConfigElements elements, one element of which is varied.
ArrayInputs(valid, keys) ==
  {NoConfig, NotAnArray, ArrayConfig(<<>>)} \cup
  {ArrayConfig([i \in 1..len |-> IF i = at THEN element ELSE ObjectElement(valid)]) :
     <<len, at>> \in {p \in (1..MaxConfigElements) \X (1..MaxConfigElements) : p[2] <= p[1]},
     element \in ElementInputs(valid, keys)}

\* The persisted configurations: one part of a valid configuration is varied.
DatabaseInputs(platform) ==
  LET general == ObjectConfig(ValidGeneralConfig(platform))
      session == ArrayConfig(<<ObjectElement(ValidSession)>>)
      actions == ArrayConfig(<<ObjectElement(ValidCommandLineAction)>>)
  IN {Database(g, session, actions) : g \in GeneralInputs(platform)} \cup
     {Database(general, s, actions) : s \in ArrayInputs(ValidSession, SessionKeys)} \cup
     {Database(general, session, a) : a \in ArrayInputs(ValidCommandLineAction, CommandLineActionKeys)}

InitSanitize ==
  /\ InitContext /\ InitExecIdle /\ InitCodecIdle /\ InitFieldCallIdle /\ InitApplyIdle /\ InitLateIdle
  /\ \E platform \in Platforms : \E db \in DatabaseInputs(platform) :
       sanitation = [NoSanitation EXCEPT !.db = db, !.platform = platform]

\* The application starts: main calls sanitizeAndIinitializeConfigs on the persisted
\* configuration.
SanitizeAndInitializeConfigsCall ==
  /\ sanitation.platform # "none"
  /\ sanitation.runs < MaxStartUps
  /\ LET run == sanitizeAndIinitializeConfigs(sanitation.db, sanitation.platform, sanitation.uuids)
     IN sanitation' = [sanitation EXCEPT
          !.db = run.outcome.db, !.runs = @ + 1, !.threw = run.outcome.threw,
          !.distributed = run.distributed, !.uuids = run.outcome.uuids,
          !.before = sanitation.db, !.beforeThrew = sanitation.threw]
  /\ UNCHANGED <<contextVars, execVars, codec, fieldCall, configApply, lateVars>>

NextSanitize == SanitizeAndInitializeConfigsCall

SpecSanitize == InitSanitize /\ [][NextSanitize]_vars

---------------------------------------------------------------------------
(* SpecSanitizeField: sanitizeField and sanitizeStringEnumField on their own *)

FieldKeys == {"field", "otherField"}
FieldValues ==
  {JsUndefined, JsNull, JsObject, JsArray, Bool(FALSE), Num(0), Num(7), Str(""), Str("x"), Str("y")}
FieldDefaults == {Num(5), Str("y"), Bool(TRUE), JsObject}
FieldEnums == {Strs({"x", "y"}), Strs({"y"})}

InitSanitizeField ==
  /\ InitContext /\ InitExecIdle /\ InitCodecIdle /\ InitSanitationIdle /\ InitApplyIdle /\ InitLateIdle
  /\ \E object \in [FieldKeys -> FieldValues], key \in FieldKeys :
       \/ \E defaultValue \in FieldDefaults :
            fieldCall = [NoFieldCall EXCEPT !.fn = "sanitizeField", !.object = object, !.key = key,
                                            !.defaultValue = defaultValue]
       \/ \E availableValues \in FieldEnums :
            fieldCall = [NoFieldCall EXCEPT !.fn = "sanitizeStringEnumField", !.object = object,
                                            !.key = key, !.defaultValue = Str("y"),
                                            !.availableValues = availableValues]

SanitizeFieldCall ==
  /\ fieldCall.fn = "sanitizeField" /\ ~fieldCall.done
  /\ fieldCall' = [fieldCall EXCEPT !.done = TRUE,
       !.result = sanitizeField(fieldCall.object, fieldCall.key, fieldCall.defaultValue)]
  /\ UNCHANGED <<contextVars, execVars, codec, sanitation, configApply, lateVars>>

SanitizeStringEnumFieldCall ==
  /\ fieldCall.fn = "sanitizeStringEnumField" /\ ~fieldCall.done
  /\ fieldCall' = [fieldCall EXCEPT !.done = TRUE,
       !.result = sanitizeStringEnumField(fieldCall.object, fieldCall.key, fieldCall.availableValues,
                                          fieldCall.defaultValue)]
  /\ UNCHANGED <<contextVars, execVars, codec, sanitation, configApply, lateVars>>

NextSanitizeField == SanitizeFieldCall \/ SanitizeStringEnumFieldCall

SpecSanitizeField == InitSanitizeField /\ [][NextSanitizeField]_vars

---------------------------------------------------------------------------
(* SpecApply: applyConfiguration and the config changes that start it.              *)
(* An invocation runs from its start or from an await to its next await; the        *)
(* invocations that wait can resume in any order.                                   *)

\* The general config: the fields that are changed here (the other fields that
\* applyConfiguration compares stay as they are).
GeneralConfig(isNull, uiScalePercent, terminalFont, terminalFontSize, themeTerminal, cursorStyle) ==
  [isNull |-> isNull, uiScalePercent |-> uiScalePercent, terminalFont |-> terminalFont,
   terminalFontSize |-> terminalFontSize, themeTerminal |-> themeTerminal, cursorStyle |-> cursorStyle]
NullGeneralConfig == GeneralConfig(TRUE, 0, "", 0, "", "")
StartGeneralConfig == GeneralConfig(FALSE, 100, DEFAULT_TERMINALFONT, 13, FALLBACK_TERMINAL_THEME, "block")

\* The system config: its flat keybindings set.
NullSystemConfig == [isNull |-> TRUE, flatKeybindingsSet |-> ""]
StartSystemConfig == [isNull |-> FALSE, flatKeybindingsSet |-> KEYBINDINGS_PC]

\* The values a change gives to a field of the general config.
ChangedValues ==
  [uiScalePercent |-> {100, 150}, terminalFont |-> AvailableFonts, terminalFontSize |-> {13, 14},
   themeTerminal |-> {FALLBACK_TERMINAL_THEME, "solarized-terminal"}, cursorStyle |-> {"block", "beam"}]
ChangedKeybindings == {KEYBINDINGS_PC, KEYBINDINGS_OSX}

\* The terminal visual config.
NullVisualConfig ==
  [isNull |-> TRUE, cursorStyle |-> "", fontFamily |-> "", fontSizePx |-> 0, terminalTheme |-> ""]
VisualConfig(config, terminalTheme) ==
  [isNull |-> FALSE, cursorStyle |-> config.cursorStyle, fontFamily |-> config.terminalFont,
   fontSizePx |-> config.terminalFontSize, terminalTheme |-> terminalTheme]

\* An invocation of applyConfiguration: where it waits, its snapshot of the configs,
\* its mainWebUi argument (is it not null), its terminalVisualConfigChanged, and the
\* config that its call of asyncLoadTerminalTheme has read.
Invocation(at, system, general, mainWebUi) ==
  [pc |-> at, newSystemConfig |-> system, newGeneralConfig |-> general, mainWebUi |-> mainWebUi,
   terminalVisualConfigChanged |-> FALSE, themeConfig |-> NullGeneralConfig]

NoApplyCall == [early |-> FALSE, before |-> <<>>]

\* What applyConfiguration can change.
ApplyEffects(s) ==
  [oldGeneralConfig |-> s.oldGeneralConfig, oldSystemConfig |-> s.oldSystemConfig,
   keybindingsMapping |-> s.keybindingsMapping, terminalVisualConfig |-> s.terminalVisualConfig,
   uiVisualConfig |-> s.uiVisualConfig, rootFontScale |-> s.rootFontScale, cssVars |-> s.cssVars,
   issued |-> s.issued]

\* The invocation waits for a request it has issued.
Await(s, i, at, request) ==
  [s EXCEPT !.invocations[i].pc = at, !.issued = @ \cup {request}]

\* part_000:891-892: the end of applyConfiguration
Line891(s, i) ==
  [s EXCEPT !.oldGeneralConfig = s.invocations[i].newGeneralConfig,
            !.oldSystemConfig = s.invocations[i].newSystemConfig,
            !.invocations[i].pc = "done"]

\* part_000:886-888
Line886(s, i) ==
  IF s.invocations[i].terminalVisualConfigChanged /\ s.invocations[i].mainWebUi
    THEN Line891([s EXCEPT !.uiVisualConfig = s.terminalVisualConfig], i)
    ELSE Line891(s, i)

\* part_000:872-884: the terminal visual config is built from the invocation's snapshot;
\* reading terminalTheme of a null terminalVisualConfig throws.
Line872(s, i) ==
  IF s.terminalVisualConfig.isNull THEN [s EXCEPT !.invocations[i].pc = "threw"]
  ELSE Line886([s EXCEPT
         !.terminalVisualConfig =
            VisualConfig(s.invocations[i].newGeneralConfig, s.terminalVisualConfig.terminalTheme),
         !.invocations[i].terminalVisualConfigChanged = TRUE], i)

\* part_000:854-871
Line854(s, i) ==
  LET old == s.oldGeneralConfig
      new == s.invocations[i].newGeneralConfig
  IN IF old.terminalFont # new.terminalFont \/ old.terminalFontSize # new.terminalFontSize
        \/ old.cursorStyle # new.cursorStyle
       THEN IF old.terminalFont # new.terminalFont
              THEN Await(s, i, "loadFontFile", "loadFontFile")
              ELSE Line872(s, i)
       ELSE Line886(s, i)

\* part_000:408-419: asyncLoadTerminalTheme ends
Line408(s, i) ==
  LET config == s.invocations[i].themeConfig
  IN Line854([s EXCEPT !.terminalVisualConfig = VisualConfig(config, config.themeTerminal),
                       !.invocations[i].terminalVisualConfigChanged = TRUE], i)

\* part_000:849-853; asyncLoadTerminalTheme (393) reads the config of the database
Line849(s, i) ==
  IF s.oldGeneralConfig.themeTerminal # s.invocations[i].newGeneralConfig.themeTerminal
    THEN Await([s EXCEPT !.invocations[i].themeConfig = s.db.general], i,
               "requestTerminalTheme", "requestTerminalTheme")
    ELSE Line854(s, i)

\* part_000:827-847
Line827(s, i) ==
  IF s.oldGeneralConfig.themeTerminal # s.invocations[i].newGeneralConfig.themeTerminal
    THEN Await(s, i, "requestThemeContents", "requestThemeContents")
    ELSE Line849(s, i)

\* part_000:822-826
Line822(s, i) ==
  IF s.oldGeneralConfig.isNull
    THEN Await([s EXCEPT !.oldGeneralConfig = s.invocations[i].newGeneralConfig,
                         !.oldSystemConfig = s.invocations[i].newSystemConfig], i,
               "requestAllThemeContents", "requestThemeContents")
    ELSE Line827(s, i)

\* part_000:811-820
Line811(s, i) ==
  LET old == s.oldGeneralConfig
      new == s.invocations[i].newGeneralConfig
  IN IF old.isNull \/ old.terminalFontSize # new.terminalFontSize \/ old.terminalFont # new.terminalFont
       THEN Await([s EXCEPT !.cssVars = <<new.terminalFont, Max(5, new.terminalFontSize)>>], i,
                  "loadFont", "loadFont")
       ELSE Line822(s, i)

\* part_000:807-809
Line807(s, i) ==
  LET new == s.invocations[i].newGeneralConfig
  IN IF s.oldSystemConfig.isNull \/ s.oldGeneralConfig.uiScalePercent # new.uiScalePercent
       THEN Line811([s EXCEPT !.rootFontScale = new.uiScalePercent], i)
       ELSE Line811(s, i)

\* part_000:802-805
Line802(s, i) ==
  LET keybindingsFile == s.invocations[i].newSystemConfig.flatKeybindingsSet
  IN IF keybindingsFile # s.keybindingsMapping
       THEN Line807([s EXCEPT !.keybindingsMapping = keybindingsFile], i)
       ELSE Line807(s, i)

\* Faulty variant: the keybindings are applied before the configs are looked at.
StartApplyConfigurationMutantNoEarlyReturn(s, mainWebUi) ==
  LET i == Len(s.invocations) + 1
      started == [s EXCEPT !.invocations = Append(@, Invocation("start", s.db.system, s.db.general, mainWebUi)),
                           !.last = [early |-> FALSE, before |-> ApplyEffects(s)]]
  IN IF s.db.system.isNull \/ s.db.general.isNull
       THEN [started EXCEPT !.invocations[i].pc = "returned", !.last.early = TRUE,
                            !.keybindingsMapping = s.db.system.flatKeybindingsSet]
       ELSE Line802(started, i)

\* part_000:791-800: applyConfiguration is called; it runs to its first await
StartApplyConfiguration(s, mainWebUi) ==
  LET i == Len(s.invocations) + 1
      started == [s EXCEPT !.invocations = Append(@, Invocation("start", s.db.system, s.db.general, mainWebUi)),
                           !.last = [early |-> FALSE, before |-> ApplyEffects(s)]]
  IN IF s.db.system.isNull \/ s.db.general.isNull
       THEN [started EXCEPT !.invocations[i].pc = "returned", !.last.early = TRUE]
       ELSE Line802(started, i)

\* The invocation goes on after the await it was waiting at.
ResumeApplyConfiguration(s, i) ==
  LET at == s.invocations[i].pc
      s1 == [s EXCEPT !.last = NoApplyCall]
  IN CASE at = "loadFont" -> Line822(s1, i)
       [] at = "requestAllThemeContents" -> Line891(s1, i)
       [] at = "requestThemeContents" -> Line849(s1, i)
       [] at = "requestTerminalTheme" -> Await(s1, i, "themeLoadFontFile", "loadFontFile")
       [] at = "themeLoadFontFile" -> Line408(s1, i)
       [] at = "loadFontFile" -> Line872(s1, i)

WaitingPcs ==
  {"loadFont", "requestAllThemeContents", "requestThemeContents", "requestTerminalTheme",
   "themeLoadFontFile", "loadFontFile"}

InitApply ==
  /\ InitContext /\ InitExecIdle /\ InitCodecIdle /\ InitSanitationIdle /\ InitFieldCallIdle /\ InitLateIdle
  /\ \E system \in {NullSystemConfig, StartSystemConfig}, general \in {NullGeneralConfig, StartGeneralConfig} :
       configApply = [NoConfigApply EXCEPT !.stage = "onChange", !.db = [system |-> system, general |-> general]]

ApplyUnchanged == UNCHANGED <<contextVars, execVars, codec, sanitation, fieldCall, lateVars>>

\* part_000:254: asyncStartUp calls applyConfiguration with no mainWebUi
StartUpApplyConfiguration ==
  /\ configApply.stage = "onChange"
  /\ configApply' = [StartApplyConfiguration(configApply, FALSE) EXCEPT !.stage = "applyConfiguration"]
  /\ ApplyUnchanged

\* part_000:260-267: when that call has ended, asyncStartUp loads the terminal theme
\* (which throws without configs) and creates the main UI with the terminal visual config
StartUpMainWebUi ==
  /\ configApply.stage = "applyConfiguration"
  /\ configApply.invocations[1].pc \in {"done", "returned"}
  /\ configApply' =
       IF configApply.db.system.isNull \/ configApply.db.general.isNull
         THEN [configApply EXCEPT !.stage = "threw", !.last = NoApplyCall]
         ELSE LET config == configApply.db.general
                  visual == VisualConfig(config, config.themeTerminal)
              IN [configApply EXCEPT !.stage = "mainWebUi", !.last = NoApplyCall,
                                     !.terminalVisualConfig = visual, !.uiVisualConfig = visual]
  /\ ApplyUnchanged

\* part_000:248-253: a change of the general config; the handler calls applyConfiguration
GeneralConfigChange ==
  /\ configApply.stage = "mainWebUi"
  /\ configApply.changes < MaxChanges
  /\ \E key \in DOMAIN ChangedValues : \E value \in ChangedValues[key] :
       /\ configApply.db.general[key] # value
       /\ configApply' =
            StartApplyConfiguration([configApply EXCEPT !.db.general[key] = value, !.changes = @ + 1], TRUE)
  /\ ApplyUnchanged

\* part_000:248-253: a change of the system config
SystemConfigChange ==
  /\ configApply.stage = "mainWebUi"
  /\ configApply.changes < MaxChanges
  /\ \E value \in ChangedKeybindings :
       /\ configApply.db.system.flatKeybindingsSet # value
       /\ configApply' =
            StartApplyConfiguration([configApply EXCEPT !.db.system.flatKeybindingsSet = value,
                                                        !.changes = @ + 1], TRUE)
  /\ ApplyUnchanged

\* part_000:248-251: a change of another config: the handler returns
OtherConfigChange ==
  /\ configApply.stage = "mainWebUi"
  /\ configApply.changes < MaxChanges
  /\ configApply' = [configApply EXCEPT !.changes = @ + 1, !.last = NoApplyCall]
  /\ ApplyUnchanged

\* An awaited request of an invocation is answered.
ResumeInvocation ==
  /\ \E i \in DOMAIN configApply.invocations :
       /\ configApply.invocations[i].pc \in WaitingPcs
       /\ configApply' = ResumeApplyConfiguration(configApply, i)
  /\ ApplyUnchanged

NextApply ==
  \/ StartUpApplyConfiguration
  \/ StartUpMainWebUi
  \/ GeneralConfigChange
  \/ SystemConfigChange
  \/ OtherConfigChange
  \/ ResumeInvocation

SpecApply == InitApply /\ [][NextApply]_vars

---------------------------------------------------------------------------
(* SpecKeybindingsManager, SpecKeyInput: KeybindingsManagerImpl and the key-input      *)
(* recording of the keybindings settings.                                             *)

\* KeybindingsManagerImpl after construction, and the KeybindingsSettings beside it.
\* `mappings` holds the TermKeybindingsMapping objects created so far (the keybindings
\* set each was loaded from, and its enabled state), `mapping` the index of
\* #keybindingsMapping in it (0: null).
NewKeybindingsManager == [NoKeybindings EXCEPT !.stage = "constructed"]

\* Faulty variant: the new mapping keeps the enabled state it was created with.
setKeybindingsMappingMutantKeepsState(k, newKeybindingContexts) ==
  [k EXCEPT !.mapping = Len(k.mappings) + 1,
            !.mappings = Append(@, newKeybindingContexts),
            !.fired = @ + 1]

\* part_000:994 setKeybindingsMapping
setKeybindingsMapping(k, newKeybindingContexts) ==
  LET k1 == [k EXCEPT !.mapping = Len(k.mappings) + 1, !.mappings = Append(@, newKeybindingContexts)]
      k2 == [k1 EXCEPT !.mappings[k1.mapping].enabled = k1.enabled]
  IN [k2 EXCEPT !.fired = @ + 1]

\* Faulty variant: the mapping is not told.
setEnabledMutantFlagOnly(k, enabled) ==
  [k EXCEPT !.enabled = enabled,
            !.globalKeybindings = IF enabled THEN "enabled" ELSE "disabled"]

\* part_000:1000 setEnabled
setEnabled(k, enabled) ==
  LET k1 == [k EXCEPT !.enabled = enabled]
      k2 == IF k1.mapping # 0 THEN [k1 EXCEPT !.mappings[k1.mapping].enabled = k1.enabled] ELSE k1
  IN [k2 EXCEPT !.globalKeybindings = IF enabled THEN "enabled" ELSE "disabled"]

\* KeybindingsSettings.ts:34 the EVENT_START_KEY_INPUT handler
OnStartKeyInput(k) == IF k.settingsManager THEN setEnabled(k, FALSE) ELSE k

\* KeybindingsSettings.ts:40 the EVENT_END_KEY_INPUT handler
OnEndKeyInput(k) == IF k.settingsManager THEN setEnabled(k, TRUE) ELSE k

InitKeybindings ==
  /\ InitEarlierIdle
  /\ InitDistributionIdle /\ InitSettingsUiIdle /\ InitAboutExtensionIdle /\ InitSharedMapIpcIdle
  /\ keybindings = NewKeybindingsManager

KeybindingsUnchanged ==
  UNCHANGED <<earlierVars, distribution, settingsUi, aboutExtension, sharedMapIpc>>

Observed(k, call) == [k EXCEPT !.last = [call |-> call, fired |-> keybindings.fired]]

\* part_000:802-805: applyConfiguration hands a new keybindings mapping to the manager
SetKeybindingsMappingCall ==
  /\ keybindings.stage = "constructed"
  /\ Len(keybindings.mappings) < MaxMappings
  /\ \E newKeybindingContexts \in [name : ChangedKeybindings, enabled : BOOLEAN] :
       keybindings' =
         Observed(setKeybindingsMapping(keybindings, newKeybindingContexts), "setKeybindingsMapping")
  /\ KeybindingsUnchanged

\* A call of setEnabled.
SetEnabledCall ==
  /\ keybindings.stage = "constructed"
  /\ \E enabled \in BOOLEAN :
       keybindings' = Observed([setEnabled(keybindings, enabled) EXCEPT !.requested = enabled], "setEnabled")
  /\ KeybindingsUnchanged

\* KeybindingsSettings.ts:84 the keybindingsManager setter
SetKeybindingsManager ==
  /\ keybindings.stage = "constructed"
  /\ ~keybindings.settingsManager
  /\ keybindings' = Observed([keybindings EXCEPT !.settingsManager = TRUE], "keybindingsManager")
  /\ KeybindingsUnchanged

\* The UI starts recording a key.
StartKeyInput ==
  /\ keybindings.stage = "constructed"
  /\ ~keybindings.recording
  /\ keybindings' =
       Observed([OnStartKeyInput(keybindings) EXCEPT !.recording = TRUE,
                                                     !.managerAtStart = keybindings.settingsManager],
                "EVENT_START_KEY_INPUT")
  /\ KeybindingsUnchanged

\* The UI ends the recording.
EndKeyInput ==
  /\ keybindings.stage = "constructed"
  /\ keybindings.recording
  /\ keybindings' = Observed([OnEndKeyInput(keybindings) EXCEPT !.recording = FALSE], "EVENT_END_KEY_INPUT")
  /\ KeybindingsUnchanged

NextKeybindingsManager == SetKeybindingsMappingCall \/ SetEnabledCall

SpecKeybindingsManager == InitKeybindings /\ [][NextKeybindingsManager]_vars

NextKeyInput == SetKeybindingsMappingCall \/ SetKeybindingsManager \/ StartKeyInput \/ EndKeyInput

SpecKeyInput == InitKeybindings /\ [][NextKeyInput]_vars

---------------------------------------------------------------------------
(* SpecDistribute: distributeUserStoredConfig, part_001:334-351 *)

\* The keys of the configuration database (Config.ts, imported at part_001:15
\* and part_000:175).
GENERAL_CONFIG == "general"
SYSTEM_CONFIG == "system"
SESSION_CONFIG == "session"
ConfigKeys == {GENERAL_CONFIG, SYSTEM_CONFIG, SESSION_CONFIG}

\* A general config as the handler reads it: null, or an object with a
\* keybindingsName.
AbsentGeneralConfig == [null |-> TRUE, keybindingsName |-> "none"]
GeneralConfigNamed(keybindingsName) == [null |-> FALSE, keybindingsName |-> keybindingsName]
EventConfigs == {AbsentGeneralConfig} \cup {GeneralConfigNamed(n) : n \in ChangedKeybindings}

\* KeybindingsIOManager.getFlatKeybindingsSet: the flat set of bindings read
\* from the keybindings file of that name.
getFlatKeybindingsSet(keybindingsName) ==
  [extends |-> keybindingsName, bindings |-> <<keybindingsName, "bindings">>]

\* ConfigDatabase.getSystemConfigCopy: a copy of the stored system config.
getSystemConfigCopy(d) == d.systemConfig

\* ConfigDatabase.setSystemConfig: stores the config and notifies the change
\* listeners with key SYSTEM_CONFIG; `written` counts the stores.
storeSystemConfig(d, systemConfig) ==
  [d EXCEPT !.systemConfig = systemConfig, !.written = @ + 1,
            !.notified = Append(@, SYSTEM_CONFIG)]

\* part_001:337-349 with the comparison of the names left out
onChangeMutantAlwaysWrites(d, event) ==
  IF event.key = GENERAL_CONFIG
  THEN IF ~event.newConfig.null
       THEN LET systemConfig == getSystemConfigCopy(d)
                rewritten == [systemConfig EXCEPT !.flatKeybindingsSet =
                                getFlatKeybindingsSet(event.newConfig.keybindingsName)]
            IN storeSystemConfig(d, rewritten)
       ELSE d
  ELSE d

\* part_001:337-349: the body of the change listener
onChange(d, event) ==
  IF event.key = GENERAL_CONFIG
  THEN LET oldGeneralConfig == event.oldConfig
           newGeneralConfig == event.newConfig
       IN IF ~newGeneralConfig.null
          THEN IF oldGeneralConfig.null
                  \/ oldGeneralConfig.keybindingsName # newGeneralConfig.keybindingsName
               THEN LET systemConfig == getSystemConfigCopy(d)
                        rewritten == [systemConfig EXCEPT !.flatKeybindingsSet =
                                        getFlatKeybindingsSet(newGeneralConfig.keybindingsName)]
                    IN storeSystemConfig(d, rewritten)
               ELSE d
          ELSE d
  ELSE d

\* part_001:346: setSystemConfig inside the listener notifies the listener
\* again, with key SYSTEM_CONFIG, before it returns.
Notified(d, event) ==
  LET d1 == onChange([d EXCEPT !.notified = <<>>], event)
  IN IF d1.notified = <<>>
     THEN d1
     ELSE onChange(d1, [key |-> d1.notified[1], oldConfig |-> AbsentGeneralConfig,
                        newConfig |-> AbsentGeneralConfig])

SystemConfigs ==
  {[flatKeybindingsSet |-> getFlatKeybindingsSet(n), titleBarStyle |-> t] :
     n \in ChangedKeybindings, t \in {"native", "theme"}}

InitDistribute ==
  /\ InitEarlierIdle
  /\ InitKeybindingsIdle /\ InitSettingsUiIdle /\ InitAboutExtensionIdle /\ InitSharedMapIpcIdle
  /\ \E systemConfig \in SystemConfigs :
       distribution = [NoDistribution EXCEPT !.stage = "stored", !.systemConfig = systemConfig]

DistributeUnchanged ==
  UNCHANGED <<earlierVars, keybindings, settingsUi, aboutExtension, sharedMapIpc>>

\* part_001:183, 337: sanitizeAndIinitializeConfigs registers the listener
DistributeUserStoredConfig ==
  /\ distribution.stage = "stored"
  /\ distribution' = [distribution EXCEPT !.stage = "listening"]
  /\ DistributeUnchanged

\* The database reports a change of one of its configs to the listener.
ConfigDatabaseChange ==
  /\ distribution.stage = "listening"
  /\ distribution.events < MaxConfigEvents
  /\ \E key \in ConfigKeys, oldConfig \in EventConfigs, newConfig \in EventConfigs :
       LET event == [key |-> key, oldConfig |-> oldConfig, newConfig |-> newConfig]
       IN distribution' =
            [Notified(distribution, event) EXCEPT
               !.events = @ + 1,
               !.last = [event |-> event, written |-> distribution.written,
                         systemConfig |-> distribution.systemConfig]]
  /\ DistributeUnchanged

NextDistribute == DistributeUserStoredConfig \/ ConfigDatabaseChange

SpecDistribute == InitDistribute /\ [][NextDistribute]_vars

---------------------------------------------------------------------------
(* SpecSettings: KeybindingsSettings.extensionManager, KeybindingsSettings.ts:92-118 *)

\* Command contributions: a command name under a category.
CommandContribution(command, category) == [command |-> command, category |-> category]
SettingsCategories == {"global", "window", "terminal"}

\* The command lists a manager can hold: empty, one category, categories
\* interleaved, and one command name under two categories.
SettingsCommandLists ==
  { <<>>,
    <<CommandContribution("a", "global")>>,
    <<CommandContribution("a", "global"), CommandContribution("b", "window")>>,
    <<CommandContribution("b", "window"), CommandContribution("a", "global"),
      CommandContribution("c", "window")>>,
    <<CommandContribution("a", "global"), CommandContribution("b", "window"),
      CommandContribution("c", "global"), CommandContribution("a", "terminal")>> }

SettingsManagers == 1..2

\* ExtensionManager.queryCommands({}): every command of the manager, in its order.
queryAllCommands(ui, extensionManager) == ui.managers[extensionManager]

\* KeybindingsSettings.ts:110-116: the loop of _buildCommandsByCategory from
\* contribution i on; a category without an entry holds the empty list.
RECURSIVE groupFrom(_, _, _)
groupFrom(allCommands, i, byCategory) ==
  IF i > Len(allCommands)
  THEN byCategory
  ELSE LET contrib == allCommands[i]
       IN groupFrom(allCommands, i + 1,
                    [byCategory EXCEPT ![contrib.category] = Append(@, contrib)])

\* KeybindingsSettings.ts:106-118
buildCommandsByCategory(ui, extensionManager) ==
  LET allCommands == queryAllCommands(ui, extensionManager)
  IN groupFrom(allCommands, 1, [category \in SettingsCategories |-> <<>>])

\* ExtensionManager.onCommandsChanged(listener): a new live subscription on
\* that manager; the disposable returned is its index.
subscribeCommandsChanged(ui, extensionManager) ==
  [ui EXCEPT !.subscriptions = Append(@, [manager |-> extensionManager, live |-> TRUE])]

\* Disposable.dispose(): the subscription no longer receives notifications.
disposeSubscription(ui, disposable) == [ui EXCEPT !.subscriptions[disposable].live = FALSE]

LiveSubscriptions(ui) == {i \in 1..Len(ui.subscriptions) : ui.subscriptions[i].live}

\* KeybindingsSettings.ts:92-104 without the disposal of lines 95-98
setExtensionManagerMutantNoDispose(ui, extensionManager) ==
  LET ui1 == [ui EXCEPT !.extensionManager = extensionManager]
      ui3 == [subscribeCommandsChanged(ui1, extensionManager) EXCEPT
                !.commandChangedDisposable = Len(ui1.subscriptions) + 1,
                !.liveAtSubscribe = Cardinality(LiveSubscriptions(ui1))]
  IN [ui3 EXCEPT !.commandsByCategory = buildCommandsByCategory(ui3, ui3.extensionManager)]

\* KeybindingsSettings.ts:92-104: the extensionManager setter
setExtensionManager(ui, extensionManager) ==
  LET ui1 == [ui EXCEPT !.extensionManager = extensionManager]
      ui2 == IF ui1.commandChangedDisposable # 0
             THEN [disposeSubscription(ui1, ui1.commandChangedDisposable) EXCEPT
                     !.commandChangedDisposable = 0]
             ELSE ui1
      ui3 == [subscribeCommandsChanged(ui2, extensionManager) EXCEPT
                !.commandChangedDisposable = Len(ui2.subscriptions) + 1,
                !.liveAtSubscribe = Cardinality(LiveSubscriptions(ui2))]
  IN [ui3 EXCEPT !.commandsByCategory = buildCommandsByCategory(ui3, ui3.extensionManager)]

\* KeybindingsSettings.ts:100-102: the listener; it reads the component's
\* manager field when it runs.
onCommandsChangedListener(ui) ==
  [ui EXCEPT !.commandsByCategory = buildCommandsByCategory(ui, ui.extensionManager),
             !.listenerRuns = @ + 1]

\* A manager notifies its live subscriptions, one after the other.
RECURSIVE notifySubscriptions(_, _, _)
notifySubscriptions(ui, manager, i) ==
  IF i > Len(ui.subscriptions)
  THEN ui
  ELSE IF ui.subscriptions[i].live /\ ui.subscriptions[i].manager = manager
       THEN notifySubscriptions(onCommandsChangedListener(ui), manager, i + 1)
       ELSE notifySubscriptions(ui, manager, i + 1)

InitSettings ==
  /\ InitEarlierIdle
  /\ InitKeybindingsIdle /\ InitDistributionIdle /\ InitAboutExtensionIdle /\ InitSharedMapIpcIdle
  /\ \E managers \in [SettingsManagers -> {<<>>, <<CommandContribution("a", "global")>>}] :
       settingsUi = [NoSettingsUi EXCEPT !.stage = "constructed",
                       !.managers = <<managers[1], managers[2]>>]

SettingsUnchanged ==
  UNCHANGED <<earlierVars, keybindings, distribution, aboutExtension, sharedMapIpc>>

\* An assignment to KeybindingsSettings.extensionManager.
SetExtensionManager ==
  /\ settingsUi.stage = "constructed"
  /\ Len(settingsUi.subscriptions) < MaxAssignments
  /\ \E extensionManager \in SettingsManagers :
       settingsUi' = [setExtensionManager([settingsUi EXCEPT !.listenerRuns = 0], extensionManager)
                        EXCEPT !.last = "extensionManager"]
  /\ SettingsUnchanged

\* The commands of a manager change and the manager tells its subscribers.
CommandsChanged ==
  /\ settingsUi.stage = "constructed"
  /\ \E manager \in SettingsManagers, allCommands \in SettingsCommandLists :
       /\ allCommands # settingsUi.managers[manager]
       /\ settingsUi' =
            [notifySubscriptions([settingsUi EXCEPT !.managers[manager] = allCommands,
                                                    !.listenerRuns = 0], manager, 1)
               EXCEPT !.last = "onCommandsChanged"]
  /\ SettingsUnchanged

NextSettings == SetExtensionManager \/ CommandsChanged

SpecSettings == InitSettings /\ [][NextSettings]_vars

---------------------------------------------------------------------------
(* SpecAbout: the About extension, AboutExtension.ts:19-46 *)

\* ExtensionWindow.createExtensionTab: a new tab, not yet shown.
createExtensionTab(a, name) ==
  [a EXCEPT !.tabs = Append(@, [name |-> name, state |-> "created", opens |-> 0,
                                title |-> "", onClose |-> FALSE])]

\* ExtensionTab.open(): shows the tab, or brings it to the front.
openTab(a, tab) == [a EXCEPT !.tabs[tab].state = "open", !.tabs[tab].opens = @ + 1]

\* AboutExtension.ts:21-46 without the test of lines 22-25
aboutCommandMutantAlwaysCreates(a) ==
  LET a1 == createExtensionTab(a, "about")
      a2 == [a1 EXCEPT !.aboutTab = Len(a1.tabs)]
      a3 == [a2 EXCEPT !.tabs[a2.aboutTab].title = "About", !.tabs[a2.aboutTab].onClose = TRUE]
  IN openTab(a3, a3.aboutTab)

\* AboutExtension.ts:21-46; aboutTab 0 is null
aboutCommand(a) ==
  IF a.aboutTab # 0
  THEN openTab(a, a.aboutTab)
  ELSE LET a1 == createExtensionTab(a, "about")
           a2 == [a1 EXCEPT !.aboutTab = Len(a1.tabs)]
           a3 == [a2 EXCEPT !.tabs[a2.aboutTab].title = "About",
                            !.tabs[a2.aboutTab].onClose = TRUE]
       IN openTab(a3, a3.aboutTab)

\* AboutExtension.ts:42-44: the onClose listener of a tab
onCloseListener(a) == [a EXCEPT !.aboutTab = 0]

\* ExtensionTab: the tab is closed and tells its onClose listeners.
closeTab(a, tab) ==
  LET a1 == [a EXCEPT !.tabs[tab].state = "closed"]
  IN IF a1.tabs[tab].onClose THEN onCloseListener(a1) ELSE a1

ExistingTabs(a) == {tab \in 1..Len(a.tabs) : a.tabs[tab].state # "closed"}

\* AboutExtension.ts:12-19: after activate, no tab
InitAbout ==
  /\ InitEarlierIdle
  /\ InitKeybindingsIdle /\ InitDistributionIdle /\ InitSettingsUiIdle /\ InitSharedMapIpcIdle
  /\ aboutExtension = [NoAboutExtension EXCEPT !.stage = "activated"]

AboutUnchanged ==
  UNCHANGED <<earlierVars, keybindings, distribution, settingsUi, sharedMapIpc>>

AboutObserved(a, call) ==
  [a EXCEPT !.last = [call |-> call, aboutTab |-> aboutExtension.aboutTab,
                      tabs |-> Len(aboutExtension.tabs),
                      existing |-> Cardinality(ExistingTabs(aboutExtension)),
                      opens |-> IF aboutExtension.aboutTab # 0
                                THEN aboutExtension.tabs[aboutExtension.aboutTab].opens
                                ELSE 0]]

\* The command "about:about" is run.
AboutCommand ==
  /\ aboutExtension.stage = "activated"
  /\ IF aboutExtension.aboutTab # 0
     THEN aboutExtension.tabs[aboutExtension.aboutTab].opens < MaxOpens
     ELSE Len(aboutExtension.tabs) < MaxTabs
  /\ aboutExtension' = AboutObserved(aboutCommand(aboutExtension), "about:about")
  /\ AboutUnchanged

\* The user closes a tab that is shown.
TabClose ==
  /\ aboutExtension.stage = "activated"
  /\ \E tab \in 1..Len(aboutExtension.tabs) :
       /\ aboutExtension.tabs[tab].state = "open"
       /\ aboutExtension' = AboutObserved(closeTab(aboutExtension, tab), "close")
  /\ AboutUnchanged

NextAbout == AboutCommand \/ TabClose

SpecAbout == InitAbout /\ [][NextAbout]_vars

---------------------------------------------------------------------------
(* SpecSharedMap: setupSharedMap, part_000:300-320 *)

SharedMapKeys == {"k1", "k2"}
SharedMapValues == {1, 2}
SharedMapDumps == {[key \in SharedMapKeys |-> 0], [key \in SharedMapKeys |-> 1]}

\* part_000:314-319 without the test of isLocalOrigin
onSharedMapChangeMutantSendsAll(s, ev) == [s EXCEPT !.sent = Append(@, ev)]

\* part_000:314-319: the onChange listener; WebIpc.sendSharedMapEvent
\* appends to the events sent
onSharedMapChange(s, ev) ==
  IF ~ev.isLocalOrigin
  THEN s
  ELSE [s EXCEPT !.sent = Append(@, ev)]

\* SharedMap: a change of the map is logged and told to the onChange
\* listeners registered so far.
fireSharedMapChange(s, ev) ==
  LET s1 == [s EXCEPT !.map[ev.key] = ev.newValue, !.changes = Append(@, ev)]
  IN IF s1.listening THEN onSharedMapChange(s1, ev) ELSE s1

\* SharedMap.sync(event): applies a change made in another process.
syncSharedMap(s, event) ==
  fireSharedMapChange(s, [id |-> Len(s.changes) + 1, key |-> event.key,
                          newValue |-> event.newValue, isLocalOrigin |-> FALSE])

\* SharedMap.set(key, value) by a holder of the map in this process.
setSharedMap(s, key, newValue) ==
  fireSharedMapChange(s, [id |-> Len(s.changes) + 1, key |-> key, newValue |-> newValue,
                          isLocalOrigin |-> TRUE])

\* SharedMap.loadAll(data): replaces the content, without a change event.
loadAllSharedMap(s, data) == [s EXCEPT !.map = data]

\* part_000:304-308: the default handler of SHARED_MAP_EVENT
onSharedMapEventMessage(s, msg) == syncSharedMap(s, msg.event)

\* part_000:300-310: setupSharedMap up to its await
setupSharedMapStart(s) == [s EXCEPT !.stage = "requestSharedMapDump", !.handler = TRUE]

\* part_000:311-319: setupSharedMap from the answer of the dump on
setupSharedMapResume(s, sharedMapDumpMsg) ==
  [loadAllSharedMap(s, sharedMapDumpMsg.data) EXCEPT !.stage = "returned", !.listening = TRUE]

InitSharedMap ==
  /\ InitEarlierIdle
  /\ InitKeybindingsIdle /\ InitDistributionIdle /\ InitSettingsUiIdle /\ InitAboutExtensionIdle
  /\ sharedMapIpc = [NoSharedMapIpc EXCEPT !.stage = "start"]

SharedMapUnchanged ==
  UNCHANGED <<earlierVars, keybindings, distribution, settingsUi, aboutExtension>>

\* setupSharedMap is called and runs to its await.
SetupSharedMap ==
  /\ sharedMapIpc.stage = "start"
  /\ sharedMapIpc' = setupSharedMapStart(sharedMapIpc)
  /\ SharedMapUnchanged

\* The dump arrives and setupSharedMap runs to its end.
SharedMapDumpArrives ==
  /\ sharedMapIpc.stage = "requestSharedMapDump"
  /\ \E data \in SharedMapDumps :
       sharedMapIpc' = setupSharedMapResume(sharedMapIpc, [data |-> data])
  /\ SharedMapUnchanged

\* A SHARED_MAP_EVENT message arrives over IPC.
SharedMapEventMessage ==
  /\ sharedMapIpc.handler
  /\ Len(sharedMapIpc.changes) < MaxSharedMapChanges
  /\ \E key \in SharedMapKeys, newValue \in SharedMapValues :
       sharedMapIpc' =
         onSharedMapEventMessage(sharedMapIpc,
                                 [event |-> [key |-> key, newValue |-> newValue,
                                             isLocalOrigin |-> TRUE]])
  /\ SharedMapUnchanged

\* A holder of the map returned by setupSharedMap changes an entry.
LocalSharedMapChange ==
  /\ sharedMapIpc.stage = "returned"
  /\ Len(sharedMapIpc.changes) < MaxSharedMapChanges
  /\ \E key \in SharedMapKeys, newValue \in SharedMapValues :
       /\ sharedMapIpc.map[key] # newValue
       /\ sharedMapIpc' = setSharedMap(sharedMapIpc, key, newValue)
  /\ SharedMapUnchanged

NextSharedMap ==
  SetupSharedMap \/ SharedMapDumpArrives \/ SharedMapEventMessage \/ LocalSharedMapChange

SpecSharedMap == InitSharedMap /\ [][NextSharedMap]_vars

---------------------------------------------------------------------------
(* SpecContext: the other methods of the extension context *)

\* What a call can change of the context, as it was when the call started.
Snapshot(m) ==
  [commands |-> m.commands, menu |-> m.menu, func |-> m.func, widgets |-> m.widgets,
   view |-> m.view, op |-> m.op]

StartCall(m, kind, args) ==
  [m EXCEPT !.call = [NoCall EXCEPT !.kind = kind, !.args = args, !.before = Snapshot(m)]]

\* `for (const data of tabTitleWidgetMeta) { if (data.name === name) ...`
DeclaredWidget(name) == \E i \in 1..Len(TabTitleWidgetsMeta) : TabTitleWidgetsMeta[i].name = name

\* Faulty variant: the factory is stored whether or not the manifest declares the name.
RegisterTabTitleWidgetMutantStoresUnknown(m, name, factory) ==
  LET m0 == StartCall(m, "registerTabTitleWidget", <<name, factory>>)
      m1 == [m0 EXCEPT !.widgets = Put(@, name, factory)]
  IN IF DeclaredWidget(name)
       THEN m1
       ELSE [m1 EXCEPT !.call.steps = Append(@, <<"logger.warn", name>>)]

\* ExtensionContextImpl._registerTabTitleWidget
RegisterTabTitleWidget(m, name, factory) ==
  LET m0 == StartCall(m, "registerTabTitleWidget", <<name, factory>>)
  IN IF DeclaredWidget(name)
       THEN [m0 EXCEPT !.widgets = Put(@, name, factory)]
       ELSE [m0 EXCEPT !.call.steps = Append(@, <<"logger.warn", name>>)]

\* The container element _createTabTitleWidgets makes for a contribution.
Container(contrib) == [tag |-> "ExtensionContainerElement", css |-> contrib.css]

\* `factory(terminalProxy, tabTitleWidget)`: the factory is called with the widget that wraps the container.
FactoryCall(factory, contrib) == <<"factory", factory, Container(contrib)>>

\* Faulty variant: a contribution without a registered factory gets a container too.
CreateWidgetMutantNoSkip(m, contrib) ==
  IF contrib.name \in DOMAIN m.widgets
    THEN [m EXCEPT !.call.steps = Append(@, FactoryCall(m.widgets[contrib.name], contrib)),
                   !.call.returned = Append(@, Container(contrib))]
    ELSE [m EXCEPT !.call.returned = Append(@, Container(contrib))]

\* _createTabTitleWidgets, the loop body for one contribution. A factory is extension
\* code; it is taken to return.
CreateWidget(m, contrib) ==
  IF contrib.name \in DOMAIN m.widgets
    THEN [m EXCEPT !.call.steps = Append(@, FactoryCall(m.widgets[contrib.name], contrib)),
                   !.call.returned = Append(@, Container(contrib))]
    ELSE m

RECURSIVE CreateWidgets(_, _)
CreateWidgets(m, contribs) ==
  IF contribs = <<>> THEN m
  ELSE CreateWidgets(CreateWidget(m, Head(contribs)), Tail(contribs))

\* ExtensionContextImpl._createTabTitleWidgets
CreateTabTitleWidgets(m) ==
  CreateWidgets(StartCall(m, "createTabTitleWidgets", <<>>), TabTitleWidgetsMeta)

\* An extension registers a tab title widget factory.
RegisterTabTitleWidgetCall ==
  /\ \E name \in WidgetNames, factory \in WidgetFactories :
       Install(RegisterTabTitleWidget(ContextState, name, factory))
  /\ UNCHANGED execVars

\* A terminal tab is created: the host asks the context for its tab title widgets.
CreateTabTitleWidgetsCall ==
  /\ Install(CreateTabTitleWidgets(ContextState))
  /\ UNCHANGED execVars

\* Faulty variant: throws without logging.
backendMutantSilent(m) ==
  [StartCall(m, "backend", <<>>) EXCEPT !.call.steps = <<"throw">>, !.call.threw = TRUE]

\* ExtensionContextImpl `get backend()`
backend(m) ==
  LET m0 == StartCall(m, "backend", <<>>)
      m1 == [m0 EXCEPT !.call.steps = Append(@, "logger.warn")]
  IN [m1 EXCEPT !.call.steps = Append(@, "throw"), !.call.threw = TRUE]

\* Faulty variant: the factories are released too.
disposeMutantClearsFactories(m) ==
  [StartCall(m, "dispose", <<>>) EXCEPT !.configurationDisposed = TRUE,
                                          !.widgets = NoFactories,
                                          !.call.steps = Append(@, "configuration.dispose")]

\* ExtensionContextImpl.dispose
dispose(m) ==
  [StartCall(m, "dispose", <<>>) EXCEPT !.configurationDisposed = TRUE,
                                          !.call.steps = Append(@, "configuration.dispose")]

\* Command ids a caller of _setCommandMenu may pass: one of the manifest and one without menu entries.
MenuCommandIds == {StaticA.command, CommandId("ext:none")}

\* Faulty variant: the first handler registered for an id is kept.
registerCommandMutantKeepsFirst(m, name, commandFunc) ==
  IF name \in DOMAIN m.func THEN m ELSE [m EXCEPT !.func = Put(@, name, commandFunc)]

\* CommandsRegistry.registerCommand: the handler of the id is set, replacing an earlier one.
registerCommand(m, name, commandFunc) == [m EXCEPT !.func = Put(@, name, commandFunc)]

\* ExtensionManager.executeCommand: the handlers it invokes, in order.
InvokedHandlers(m, commandName) ==
  IF getCommandFunction(m, commandName) = NoFunction
    THEN <<>>
    ELSE <<getCommandFunction(m, commandName)>>

\* An extension reads `context.backend`.
BackendAccess ==
  /\ Install(backend(ContextState))
  /\ UNCHANGED execVars

\* The extension manager disposes the context.
ContextDisposeCall ==
  /\ Install(dispose(ContextState))
  /\ UNCHANGED execVars

\* A caller of _setCommandMenu (startUpSessions, a viewer's registerCommands).
SetCommandMenuCall ==
  /\ \E command \in MenuCommandIds, menuType \in MenuTypes, on \in BOOLEAN :
       Install(SetCommandMenu(StartCall(ContextState, "setCommandMenu", <<command, menuType, on>>),
                              command, menuType, on))
  /\ UNCHANGED execVars

\* registerCommands and its like: `commands.registerCommand(name, commandFunc)`
RegisterCommandCall ==
  /\ \E name \in ExecCommandNames, commandFunc \in CommandFunctions :
       Install(registerCommand(StartCall(ContextState, "registerCommand", <<name, commandFunc>>),
                               name, commandFunc))
  /\ UNCHANGED execVars

\* A command is executed: the handlers invoked are recorded.
ExecuteCommandCall ==
  /\ \E commandName \in ExecCommandNames :
       Install([StartCall(ContextState, "executeCommand", <<commandName>>)
                  EXCEPT !.call.steps = InvokedHandlers(ContextState, commandName)])
  /\ UNCHANGED execVars

NextContext ==
  \/ RegisterTabTitleWidgetCall
  \/ CreateTabTitleWidgetsCall
  \/ BackendAccess
  \/ ContextDisposeCall

NextCommands ==
  \/ SetCommandMenuCall
  \/ RegisterCommandCall
  \/ ExecuteCommandCall

\* Calls that reach the context's CommandsRegistry, in any order.
SpecCommands == Init /\ [][NextCommands]_vars

\* Calls of the context's own methods by the host and the extension, in any order.
SpecContext == Init /\ [][NextContext]_vars

---------------------------------------------------------------------------
(* Properties of Spec *)

Range(list) == {list[i] : i \in 1..Len(list)}
Without(list, c) == SelectSeq(list, LAMBDA x : x # c)
Occurrences(list, x) == Cardinality({i \in 1..Len(list) : list[i] = x})

AllDisposedOnce ==
  /\ DOMAIN disposables # {}
  /\ \A o \in DOMAIN disposables : disposables[o].count = 1

\* C1: once every disposable returned by _registerCommandContribution has been disposed
\* exactly once, the metadata's command list and the registry's maps are what they
\* were before the first registration.
C1_RoundTrip ==
  AllDisposedOnce =>
    /\ commands = InitCommands
    /\ commandToMenuEntryMap = InitMenuMap
    /\ commandToFunctionMap = InitFuncMap

\* C2: a registration appends, then registers with the CommandsRegistry, then notifies
\* exactly once (so the notification sees both); a disposal leaves the contribution out of
\* the list, its id out of the registry, and notifies exactly once.
C2_RegisterAndDisposeEffects ==
  /\ lastOp.kind = "register" =>
       /\ lastOp.steps = <<"push", "registerCommandContribution", "commandRegistrationChanged">>
       /\ lastOp.atNotify.commands = Append(lastOp.before, lastOp.c)
       /\ lastOp.c.command \in lastOp.atNotify.registry
       /\ commands = Append(lastOp.before, lastOp.c)
       /\ lastOp.c.command \in DOMAIN commandToMenuEntryMap
  /\ lastOp.kind = "dispose" =>
       /\ Occurrences(lastOp.steps, "commandRegistrationChanged") = 1
       /\ Occurrences(lastOp.steps, "commandDisposable.dispose") = 1
       /\ lastOp.c \notin Range(commands)
       /\ lastOp.c.command \notin DOMAIN commandToMenuEntryMap

\* C2 witness: a registered contribution has just been disposed for the first time.
C2_Witness ==
  /\ lastOp.kind = "dispose"
  /\ lastOp.c \in Range(lastOp.before)
  /\ disposables[lastOp.c.oid].count = 1

\* C3: a registration appends c and leaves the earlier elements alone; while its
\* disposable is not disposed getCommandFunction(c.command) is non-null; after the
\* disposal the list is the list without c and getCommandFunction(c.command) is null.
C3_AppendedAndCallableUntilDisposed ==
  /\ lastOp.kind = "register" => commands = Append(lastOp.before, lastOp.c)
  /\ \A o \in DOMAIN disposables :
       disposables[o].count = 0 =>
         getCommandFunction(ContextState, disposables[o].c.command) # NoFunction
  /\ lastOp.kind = "dispose" =>
       /\ commands = Without(lastOp.before, lastOp.c)
       /\ getCommandFunction(ContextState, lastOp.c.command) = NoFunction

\* C4: when a disposal fires commandRegistrationChanged the contribution is already out
\* of the metadata's command list and of the registry, so the subscriber's re-query does
\* not return it.
C4_NotifiedAfterRemoval ==
  (lastOp.kind = "dispose" /\ lastOp.c \in Range(lastOp.before)) =>
    /\ lastOp.c \notin Range(lastOp.atNotify.commands)
    /\ lastOp.c.command \notin lastOp.atNotify.registry
    /\ lastOp.c \notin Range(commandsByCategory)

\* C5: no two contributions of the metadata's command list have the same command id.
C5_UniqueCommandIds ==
  \A i, j \in 1..Len(commands) : i # j => commands[i].command # commands[j].command

\* The contribution is in both the list and the registry, or in neither.
InBothOrNeither(c, list, registered) == (c \in Range(list)) <=> (c.oid \in registered)

\* C19: registration and disposal of a dynamic contribution are atomic for every other
\* task: between event handlers, and inside every commandRegistrationChanged
\* notification, a contribution is in both the metadata's command list and the registry
\* or in neither.
C19_AtomicForOtherTasks ==
  /\ \A o \in DOMAIN disposables :
       InBothOrNeither(disposables[o].c, commands,
                       RegisteredContributions(commandToMenuEntryMap))
  /\ lastOp.kind \in {"register", "dispose"} =>
       InBothOrNeither(lastOp.c, lastOp.atNotify.commands, lastOp.atNotify.contributions)

\* The per-session contributions of the metadata's command list, in list order.
SessionContributions ==
  SelectSeq(commands, LAMBDA c : c.command[1] = "extraterm:window.newTerminal?")

\* Only SESSION_CONFIG change events have registered contributions so far.
OnlySessionEvents == \A o \in DOMAIN disposables : disposables[o].session

\* C21: after any sequence of SESSION_CONFIG change events the per-session contributions
\* of the metadata's command list are, one for one and in order, those of the sessions
\* of the most recent configuration; the contributions made for an earlier configuration
\* are disposed and out of the list; the manifest's contributions are all still there.
C21_SessionCommandsFollowConfig ==
  OnlySessionEvents =>
    /\ CommandIdsOf(SessionContributions) =
         [i \in 1..Len(sessionConfig) |-> SessionCommandId(sessionConfig[i])]
    /\ [i \in 1..Len(SessionContributions) |-> SessionContributions[i].oid] = holder
    /\ \A o \in DOMAIN disposables \ Range(holder) :
         disposables[o].count = 1 /\ disposables[o].c \notin Range(commands)
    /\ \A o \in Range(holder) : disposables[o].count = 0
    /\ SelectSeq(commands, LAMBDA c : c.oid <= NumStatic) = InitCommands

\* C21 witness: a configuration of two sessions was replaced by one of one session.
C21_Witness ==
  /\ OnlySessionEvents
  /\ Len(sessionConfig) = 1
  /\ Cardinality(DOMAIN disposables) = 3
  /\ \E o \in DOMAIN disposables : disposables[o].count = 1

\* C28: a second disposal of the disposable _registerCommandContribution returned
\* leaves the metadata's command list as it was after the first disposal.
C28_SecondDisposalIsHarmless ==
  (lastOp.kind = "dispose" /\ disposables[lastOp.c.oid].count >= 2) =>
    commands = lastOp.before

---------------------------------------------------------------------------
(* Properties of SpecIpc and SpecExec *)

ResponsesTo(i) == {k \in 1..Len(responses) : responses[k].uuid = requests[i].uuid}

HandlerFailed(i) == pc[i].outcome = "throw" \/ promise[i].state = "rejected"
CaughtError(i) == IF pc[i].outcome = "throw" THEN "thrown" ELSE promise[i].value

\* C6: when the handler of a request throws or its promise rejects, handleExecuteCommand
\* does not fail itself: it sends exactly one response, with the request's uuid and the
\* caught error as the exception.
C6_FailureIsAnswered ==
  \A i \in 1..Len(requests) :
    /\ ~escaped[i]
    /\ Cardinality(ResponsesTo(i)) <= 1
    /\ (pc[i].at = "done" /\ HandlerFailed(i)) =>
         /\ Cardinality(ResponsesTo(i)) = 1
         /\ \A k \in ResponsesTo(i) :
              responses[k].req = i /\ responses[k].exception = CaughtError(i)

\* C6 witness: a request whose handler's promise rejected has been answered.
C6_Witness ==
  \E i \in 1..Len(requests) :
    pc[i].at = "done" /\ promise[i].state = "rejected" /\ ResponsesTo(i) # {}

\* C7: a response carries a result or an exception, never both.
C7_ResultOrException ==
  \A k \in 1..Len(responses) :
    responses[k].exception # "null" => responses[k].result = "null"

HandlerCompleted(i) ==
  /\ i <= Len(requests)
  /\ \/ pc[i].outcome \in {"return", "throw"}
     \/ promise[i].state \in {"resolved", "rejected"}

Answered(i) == i <= Len(requests) /\ Cardinality(ResponsesTo(i)) = 1

C8_Safety ==
  /\ \A i \in 1..Len(requests) : Cardinality(ResponsesTo(i)) <= 1
  /\ \A k \in 1..Len(responses) :
       LET i == responses[k].req
       IN /\ responses[k].uuid = requests[i].uuid
          /\ pc[i].outcome = "promise" => promise[i].state \in {"resolved", "rejected"}
          /\ promise[i].state = "resolved" =>
               responses[k].result = promise[i].value /\ responses[k].exception = "null"

\* C8: a request whose handler completes is answered exactly once, eventually, and not
\* before the handler's promise has settled; on success the result is the resolved value.
C8_AnsweredAfterCompletion ==
  /\ []C8_Safety
  /\ \A i \in 1..MaxRequests : HandlerCompleted(i) ~> Answered(i)

\* C8 witness: a request whose handler's promise resolved has been answered.
C8_Witness ==
  \E i \in 1..Len(requests) :
    promise[i].state = "resolved" /\ pc[i].at = "done" /\ ResponsesTo(i) # {}

\* C9: a request waiting to run is never held back by another request's pending handler,
\* and every response carries the uuid of the request whose invocation sent it.
C9_NotSerialized ==
  /\ \A i \in 1..Len(requests) : pc[i].at = "later" => ENABLED Resume(i)
  /\ \A k \in 1..Len(responses) :
       /\ responses[k].uuid = requests[responses[k].req].uuid
       /\ \A j \in 1..Len(requests) :
            j # responses[k].req => responses[k].uuid # requests[j].uuid

\* C9 witness: two responses were sent in the opposite order of their requests (the
\* later request was answered while the earlier one's handler was pending).
C9_Witness ==
  \E k1, k2 \in 1..Len(responses) : k1 < k2 /\ responses[k1].req > responses[k2].req

Unregistered(commandName) == commandName \notin DOMAIN commandToFunctionMap

\* C10: executing a command id without a registered handler yields the "not found" error
\* value and no exception leaves the event handler, for IPC requests and key events.
C10_NotFoundIsAValue ==
  /\ \A i \in 1..Len(requests) :
       (pc[i].at = "done" /\ Unregistered(requests[i].commandName)) =>
         /\ ~escaped[i]
         /\ Cardinality(ResponsesTo(i)) = 1
         /\ \A k \in ResponsesTo(i) :
              responses[k].result = "notfound" /\ responses[k].exception = "null"
  /\ (lastKey.executed # <<>> /\ Unregistered(lastKey.executed[1])) =>
       lastKey.returned = "notfound" /\ ~lastKey.escaped

\* C10 witness: an unregistered command was executed on both paths.
C10_Witness ==
  /\ \E i \in 1..Len(requests) :
       pc[i].at = "done" /\ Unregistered(requests[i].commandName)
  /\ lastKey.event = "key"
  /\ lastKey.executed # <<>>
  /\ Unregistered(lastKey.executed[1])

Ambiguous == Len(lastKey.filtered) >= 2

\* C11: a key event whose filtered query returns n >= 1 commands executes exactly one
\* command, the first of the query result; when n >= 2 exactly one warning is logged
\* and it names all n command ids.
C11_FirstMatchAndOneWarning ==
  (lastKey.event = "key" /\ Len(lastKey.filtered) >= 1) =>
    /\ lastKey.executed = <<lastKey.filtered[1].command>>
    /\ Ambiguous => lastKey.warned = <<CommandIdsOf(lastKey.filtered)>>

\* C11 witness: a key event matched two enabled commands.
C11_Witness ==
  lastKey.event = "key" /\ Ambiguous /\ Len(lastKey.executed) = 1

\* C12: every input event (key event or hyperlink click) that resolves to more than one
\* enabled command executes the first match and logs a warning naming the matching ids.
C12_AmbiguityIsWarned ==
  (lastKey.event \in {"key", "hyperlink"} /\ Ambiguous) =>
    /\ lastKey.executed = <<lastKey.filtered[1].command>>
    /\ \E k \in 1..Len(lastKey.warned) : lastKey.warned[k] = CommandIdsOf(lastKey.filtered)

---------------------------------------------------------------------------
(* Properties of SpecContext *)

Called(kind) == lastCall.kind = kind

\* The contributions whose name has a registered factory, in declaration order.
MatchingWidgets ==
  SelectSeq(TabTitleWidgetsMeta, LAMBDA w : w.name \in DOMAIN tabTitleWidgetFactoryMap)

\* C13: _createTabTitleWidgets returns one container for each contribution whose name
\* has a registered factory and none for the others, in declaration order, and calls the
\* factory registered for each of these contributions once, for that contribution's
\* container; without a registered factory the result is empty.
C13_OneContainerPerRegisteredWidget ==
  Called("createTabTitleWidgets") =>
    /\ lastCall.returned = [i \in 1..Len(MatchingWidgets) |-> Container(MatchingWidgets[i])]
    /\ lastCall.steps =
         [i \in 1..Len(MatchingWidgets) |->
            FactoryCall(tabTitleWidgetFactoryMap[MatchingWidgets[i].name], MatchingWidgets[i])]
    /\ tabTitleWidgetFactoryMap = NoFactories => lastCall.returned = <<>>
    /\ ~lastCall.threw

\* C13 witness: widgets were created while the first and the last contribution had a
\* factory and the one declared between them had none.
C13_Witness ==
  /\ Called("createTabTitleWidgets")
  /\ DOMAIN tabTitleWidgetFactoryMap =
       {TabTitleWidgetsMeta[1].name, TabTitleWidgetsMeta[Len(TabTitleWidgetsMeta)].name}
  /\ Len(lastCall.returned) = 2

\* C14: _registerTabTitleWidget with a name the manifest does not declare does not throw,
\* leaves the factory map unchanged and logs one warning; with a declared name it stores
\* the factory under that name and logs no warning.
C14_UnknownWidgetNameIsWarned ==
  Called("registerTabTitleWidget") =>
    LET name == lastCall.args[1]
        factory == lastCall.args[2]
    IN /\ ~lastCall.threw
       /\ ~DeclaredWidget(name) =>
            /\ tabTitleWidgetFactoryMap = lastCall.before.widgets
            /\ lastCall.steps = <<(<<"logger.warn", name>>)>>
       /\ DeclaredWidget(name) =>
            /\ name \in DOMAIN tabTitleWidgetFactoryMap
            /\ tabTitleWidgetFactoryMap[name] = factory
            /\ \A other \in WidgetNames \ {name} :
                 /\ other \in DOMAIN tabTitleWidgetFactoryMap <=> other \in DOMAIN lastCall.before.widgets
                 /\ other \in DOMAIN tabTitleWidgetFactoryMap =>
                      tabTitleWidgetFactoryMap[other] = lastCall.before.widgets[other]
            /\ lastCall.steps = <<>>

\* C14 witness: a factory was registered under an undeclared name while factories were registered.
C14_Witness ==
  /\ Called("registerTabTitleWidget")
  /\ ~DeclaredWidget(lastCall.args[1])
  /\ tabTitleWidgetFactoryMap # NoFactories

\* The state a call can change is what it was when the call started.
ContextUnchanged ==
  /\ commands = lastCall.before.commands
  /\ commandToMenuEntryMap = lastCall.before.menu
  /\ commandToFunctionMap = lastCall.before.func
  /\ tabTitleWidgetFactoryMap = lastCall.before.widgets

\* C15: an access to `backend` logs one warning, then throws; it returns no value and
\* leaves the command list, the registry and the factory map unchanged.
C15_BackendWarnsThenThrows ==
  Called("backend") =>
    /\ lastCall.steps = <<"logger.warn", "throw">>
    /\ lastCall.threw
    /\ lastCall.returned = <<>>
    /\ ContextUnchanged

\* C15 witness: `backend` was read on a context with a registered factory.
C15_Witness ==
  Called("backend") /\ tabTitleWidgetFactoryMap # NoFactories

C17_SetCommandMenuFrame ==
  Called("setCommandMenu") =>
    LET command == lastCall.args[1]
        menuType == lastCall.args[2]
    IN /\ DOMAIN commandToMenuEntryMap = DOMAIN lastCall.before.menu
       /\ \A id \in DOMAIN commandToMenuEntryMap :
            /\ Len(commandToMenuEntryMap[id]) = Len(lastCall.before.menu[id])
            /\ \A i \in 1..Len(commandToMenuEntryMap[id]) :
                 /\ commandToMenuEntryMap[id][i].contribution = lastCall.before.menu[id][i].contribution
                 /\ \A flag \in MenuTypes :
                      (id # command \/ flag # menuType) =>
                        commandToMenuEntryMap[id][i][flag] = lastCall.before.menu[id][i][flag]
       /\ commands = lastCall.before.commands
       /\ lastOp = lastCall.before.op
       /\ commandsByCategory = lastCall.before.view

\* C17 witness: a flag of one command was changed while another command's same flag
\* has the other value.
C17_Witness ==
  /\ Called("setCommandMenu")
  /\ lastCall.args[1] = StaticA.command
  /\ commandToMenuEntryMap # lastCall.before.menu
  /\ commandToMenuEntryMap[StaticB.command][1][lastCall.args[2]] # lastCall.args[3]

\* C18: dispose() calls configuration.dispose() and leaves the metadata's command list,
\* the registry and the factory map unchanged.
C18_DisposeReleasesConfigurationOnly ==
  Called("dispose") =>
    /\ lastCall.steps = <<"configuration.dispose">>
    /\ configurationDisposed
    /\ ContextUnchanged

\* C18 witness: a context with registered factories was disposed.
C18_Witness ==
  /\ Called("dispose")
  /\ tabTitleWidgetFactoryMap # NoFactories

\* C20: registering a handler for an id that already has one overwrites it: after the
\* registerCommand, executing the command invokes the handler just registered and no
\* other; an execution invokes the handler the registry holds for the id, once.
C20_ReRegistrationOverwrites ==
  /\ Called("registerCommand") =>
       /\ InvokedHandlers(ContextState, lastCall.args[1]) = <<lastCall.args[2]>>
       /\ \A name \in DOMAIN lastCall.before.func \ {lastCall.args[1]} :
            InvokedHandlers(ContextState, name) = <<lastCall.before.func[name]>>
  /\ Called("executeCommand") =>
       /\ lastCall.args[1] \in DOMAIN commandToFunctionMap =>
            lastCall.steps = <<commandToFunctionMap[lastCall.args[1]]>>
       /\ commandToFunctionMap = lastCall.before.func

\* C20 witness: a handler was registered for an id that had another handler.
C20_Witness ==
  /\ Called("registerCommand")
  /\ lastCall.args[1] \in DOMAIN lastCall.before.func
  /\ lastCall.before.func[lastCall.args[1]] # lastCall.args[2]

---------------------------------------------------------------------------
(* Properties of SpecCodec *)

\* C22: the argument suffix round-trips: parsing the id built for a session uuid
\* yields an args object with that sessionUuid; and no other uuid gives the same id.
C22_CommandIdRoundTrips ==
  /\ codec.stage = "parsed" => codec.args = [sessionUuid |-> codec.sessionUuid]
  /\ codec.stage \in {"command", "parsed"} =>
       \A other \in Uuids :
         other # codec.sessionUuid => NewTerminalCommand(other) # codec.command

\* C22 witness: the id of a uuid with a quote or a percent sign in it was parsed.
C22_Witness ==
  /\ codec.stage = "parsed"
  /\ \E i \in 1..Len(codec.sessionUuid) : codec.sessionUuid[i] \in {"\"", "%"}

---------------------------------------------------------------------------
(* Properties of SpecSanitize and SpecSanitizeField *)

\* The general config stored, and the one that was stored before the last run.
StoredGeneral == sanitation.db.general.value
PersistedGeneral == sanitation.before.general

\* C23: for every persisted configuration, sanitizeAndIinitializeConfigs completes
\* without throwing and a general config, a session config and a command line action
\* config are stored.
C23_SanitationNeverThrows ==
  sanitation.runs >= 1 =>
    /\ ~sanitation.threw
    /\ sanitation.distributed
    /\ sanitation.db.general.kind = "config"
    /\ sanitation.db.session.kind = "array"
    /\ sanitation.db.commandLineAction.kind = "array"

\* Would the field be replaced by sanitizeField / by sanitizeStringEnumField.
WrongType(value, defaultValue) ==
  value \in {JsUndefined, JsNull} \/ typeof(value) # typeof(defaultValue)
NotAllowed(value, availableValues) ==
  value \in {JsUndefined, JsNull} \/ value \notin availableValues
FieldReplaced ==
  IF fieldCall.fn = "sanitizeField"
    THEN WrongType(fieldCall.object[fieldCall.key], fieldCall.defaultValue)
    ELSE NotAllowed(fieldCall.object[fieldCall.key], fieldCall.availableValues)

\* C24: sanitizeField and sanitizeStringEnumField set the field to its default exactly
\* when it is null/undefined or of another type than the default (not an allowed value);
\* a valid value and every other field of the object are left as they were.
C24_FieldByField ==
  fieldCall.done =>
    /\ DOMAIN fieldCall.result = DOMAIN fieldCall.object
    /\ FieldReplaced => fieldCall.result[fieldCall.key] = fieldCall.defaultValue
    /\ ~FieldReplaced => fieldCall.result[fieldCall.key] = fieldCall.object[fieldCall.key]
    /\ \A key \in DOMAIN fieldCall.object \ {fieldCall.key} :
         fieldCall.result[key] = fieldCall.object[key]

C24_Witness ==
  /\ fieldCall.done
  /\ fieldCall.fn = "sanitizeField"
  /\ fieldCall.object[fieldCall.key] = Str("x")
  /\ fieldCall.defaultValue = Num(5)
  /\ fieldCall.result[fieldCall.key] = Num(5)
  /\ fieldCall.result["otherField"] = JsNull

\* C25: the general config stored by sanitizeGeneralConfig has allowed values in its
\* enum fields, a known keybindings name, an available (or the default) font, hardware
\* acceleration on, and themes of the matching type (or the fallbacks).
C25_GeneralConfigIsValid ==
  sanitation.runs >= 1 =>
    /\ StoredGeneral["cursorStyle"] \in configCursorStyles
    /\ StoredGeneral["frameRule"] \in frameRules
    /\ StoredGeneral["gpuDriverWorkaround"] \in gpuDriverWorkarounds
    /\ StoredGeneral["showTips"] \in showTipsValues
    /\ StoredGeneral["terminalMarginStyle"] \in marginStyles
    /\ StoredGeneral["titleBarStyle"] \in titleBarStyles
    /\ StoredGeneral["windowBackgroundMode"] \in windowBackgroundModes
    /\ StoredGeneral["keybindingsName"] \in Strs(AllLogicalKeybindingsNames)
    /\ StoredGeneral["terminalFont"] \in Strs(AvailableFonts \cup {DEFAULT_TERMINALFONT})
    /\ StoredGeneral["isHardwareAccelerated"] = Bool(TRUE)
    /\ StoredGeneral["themeTerminal"] \in
         Strs({n \in DOMAIN ThemeTypeOf : ThemeTypeOf[n] = "terminal"} \cup {FALLBACK_TERMINAL_THEME})
    /\ StoredGeneral["themeSyntax"] \in
         Strs({n \in DOMAIN ThemeTypeOf : ThemeTypeOf[n] = "syntax"} \cup {FALLBACK_SYNTAX_THEME})
    /\ StoredGeneral["themeGUI"] \in
         Strs({n \in DOMAIN ThemeTypeOf : ThemeTypeOf[n] = "gui"} \cup {FALLBACK_GUI_THEME})

\* A persisted theme of the wrong type was replaced by the fallback.
C25_Witness ==
  /\ sanitation.runs = 1
  /\ PersistedGeneral.kind = "config"
  /\ PersistedGeneral.value["themeTerminal"] = Str("solarized-syntax")
  /\ StoredGeneral["themeTerminal"] = Str(FALLBACK_TERMINAL_THEME)

\* The limits of the numeric fields.
NumericLimits ==
  [terminalFontSize |-> [min |-> 4, max |-> 1024],
   uiScalePercent |-> [min |-> 5, max |-> 500],
   windowBackgroundTransparencyPercent |-> [min |-> 0, max |-> 100]]

\* C26: terminalFontSize, uiScalePercent and windowBackgroundTransparencyPercent are
\* stored within their limits; a persisted integer within the limits is kept, and
\* uiScalePercent 0 becomes 100.
C26_NumericFieldsInRange ==
  sanitation.runs >= 1 =>
    \A key \in DOMAIN NumericLimits :
      /\ StoredGeneral[key].t = "number"
      /\ StoredGeneral[key].n >= NumericLimits[key].min
      /\ StoredGeneral[key].n <= NumericLimits[key].max
      /\ (PersistedGeneral.kind = "config" /\ PersistedGeneral.value[key].t = "number") =>
           LET n == PersistedGeneral.value[key].n
           IN /\ (n >= NumericLimits[key].min /\ n <= NumericLimits[key].max) => StoredGeneral[key].n = n
              /\ (key = "uiScalePercent" /\ n = 0) => StoredGeneral[key].n = 100

\* A font size below the limit was raised to it, and one within was kept.
C26_Witness ==
  /\ sanitation.runs = 1
  /\ PersistedGeneral.kind = "config"
  /\ PersistedGeneral.value["terminalFontSize"] = Num(3)
  /\ StoredGeneral["terminalFontSize"] = Num(4)
  /\ PersistedGeneral.value["uiScalePercent"] = Num(100)
  /\ StoredGeneral["uiScalePercent"] = Num(100)

\* C27: a run of the sanitation on a configuration that a run has already sanitized
\* stores the same configuration again; the session uuids stay.
C27_SanitationIsIdempotent ==
  (sanitation.runs >= 2 /\ ~sanitation.beforeThrew) =>
    /\ ~sanitation.threw
    /\ sanitation.db = sanitation.before

\* The second run kept a uuid that the first run had created.
C27_Witness ==
  /\ sanitation.runs = 2
  /\ ~sanitation.beforeThrew
  /\ sanitation.db.session.value # <<>>
  /\ sanitation.db.session.value[1].fields["uuid"] = createUuid(1)
  /\ sanitation.uuids >= 2

---------------------------------------------------------------------------
(* Properties of SpecApply *)

\* Every invocation of applyConfiguration has ended.
AllInvocationsEnded ==
  \A i \in DOMAIN configApply.invocations : configApply.invocations[i].pc \notin WaitingPcs

\* C29: once every invocation of applyConfiguration has ended, oldGeneralConfig and
\* oldSystemConfig are the configs of the most recent change, and the main UI has the
\* terminal visual config of the most recent general config.
C29_LastChangeWins ==
  (configApply.stage = "mainWebUi" /\ AllInvocationsEnded) =>
    /\ configApply.oldGeneralConfig = configApply.db.general
    /\ configApply.oldSystemConfig = configApply.db.system
    /\ configApply.uiVisualConfig =
         VisualConfig(configApply.db.general, configApply.db.general.themeTerminal)

\* C30: an invocation of applyConfiguration that finds no system config or no general
\* config returns with no effect: the old configs, the keybindings mapping, the
\* terminal visual config, the font scale and CSS variables are as before and no
\* request has been issued.
C30_EarlyReturnHasNoEffect ==
  configApply.last.early =>
    /\ ApplyEffects(configApply) = configApply.last.before
    /\ configApply.invocations[Len(configApply.invocations)].pc = "returned"

\* applyConfiguration returned early with a system config but no general config.
C30_Witness ==
  /\ configApply.last.early
  /\ ~configApply.db.system.isNull
  /\ configApply.db.general.isNull
  /\ configApply.keybindingsMapping # configApply.db.system.flatKeybindingsSet

---------------------------------------------------------------------------
(* Properties of SpecExec: the captured key event *)

\* C33: a captured key event is stopped (propagation stopped, default prevented) if and
\* only if a command was executed for it: with an empty filtered query nothing is
\* executed and the event is left as it is, with a non-empty one exactly one command is
\* executed and the event is stopped.
C33_StoppedIffExecuted ==
  lastKey.event = "key" =>
    /\ lastKey.stopped <=> (lastKey.executed # <<>>)
    /\ lastKey.filtered = <<>> => (lastKey.executed = <<>> /\ ~lastKey.stopped)
    /\ lastKey.filtered # <<>> => (Len(lastKey.executed) = 1 /\ lastKey.stopped)

---------------------------------------------------------------------------
(* Properties of SpecKeybindingsManager and SpecKeyInput *)

\* Is the current keybindings mapping enabled.
MappingEnabled == keybindings.mappings[keybindings.mapping].enabled

\* C31: the current keybindings mapping, when there is one, has the enabled state of
\* the most recent setEnabled call (true when there was none); setKeybindingsMapping
\* fires onChange once and setEnabled does not fire it.
C31_MappingFollowsSetEnabled ==
  /\ keybindings.mapping # 0 => MappingEnabled = keybindings.requested
  /\ keybindings.last.call = "setKeybindingsMapping" => keybindings.fired = keybindings.last.fired + 1
  /\ keybindings.last.call = "setEnabled" => keybindings.fired = keybindings.last.fired

\* setEnabled(false) was called and then a mapping that was created enabled was set.
C31_Witness ==
  /\ keybindings.last.call = "setKeybindingsMapping"
  /\ ~keybindings.requested
  /\ Len(keybindings.mappings) >= 2
  /\ ~MappingEnabled

\* C32: while a key-input recording that started with a keybindings manager set is in
\* progress, the active keybindings mapping is disabled, also when the mapping is
\* replaced meanwhile; after EVENT_END_KEY_INPUT the active mapping is enabled.
C32_DisabledWhileRecording ==
  /\ (keybindings.recording /\ keybindings.managerAtStart /\ keybindings.mapping # 0) => ~MappingEnabled
  /\ (keybindings.last.call = "EVENT_END_KEY_INPUT" /\ keybindings.settingsManager
        /\ keybindings.mapping # 0) => MappingEnabled

\* The mapping was replaced during a recording.
C32_Witness ==
  /\ keybindings.recording /\ keybindings.managerAtStart
  /\ keybindings.last.call = "setKeybindingsMapping"
  /\ Len(keybindings.mappings) >= 2
  /\ ~MappingEnabled

---------------------------------------------------------------------------
(* Properties of SpecDistribute *)

DistributionWrote ==
  /\ distribution.written = distribution.last.written + 1
  /\ distribution.systemConfig =
       [distribution.last.systemConfig EXCEPT !.flatKeybindingsSet =
          getFlatKeybindingsSet(distribution.last.event.newConfig.keybindingsName)]

DistributionLeft ==
  /\ distribution.written = distribution.last.written
  /\ distribution.systemConfig = distribution.last.systemConfig

NameChanged ==
  \/ distribution.last.event.oldConfig.null
  \/ distribution.last.event.oldConfig.keybindingsName
       # distribution.last.event.newConfig.keybindingsName

\* C34: after a change event for the general config with a non-null new
\* config, the system config has been written once, with flatKeybindingsSet
\* the set of the new keybindingsName and nothing else changed, exactly when
\* the old config is null or has another keybindingsName; when the name is
\* unchanged, or the event is for another key, the system config is not written.
C34_RewrittenIffNameChanged ==
  distribution.events > 0 =>
    /\ (distribution.last.event.key = GENERAL_CONFIG /\ ~distribution.last.event.newConfig.null) =>
         /\ NameChanged => DistributionWrote
         /\ ~NameChanged => DistributionLeft
    /\ distribution.last.event.key # GENERAL_CONFIG => DistributionLeft

\* A general-config change from one keybindings name to the other has
\* rewritten the set, after an earlier one with the same name that did not.
C34_Witness ==
  /\ distribution.events = 2
  /\ distribution.last.event.key = GENERAL_CONFIG
  /\ ~distribution.last.event.newConfig.null
  /\ ~distribution.last.event.oldConfig.null
  /\ NameChanged
  /\ distribution.written = 1
  /\ distribution.systemConfig.flatKeybindingsSet # distribution.last.systemConfig.flatKeybindingsSet

---------------------------------------------------------------------------
(* Properties of SpecSettings *)

ShownCommands == settingsUi.managers[settingsUi.extensionManager]

\* Every command of the query is under its own category, once, in query order.
GroupedInQueryOrder ==
  \A category \in SettingsCategories :
    settingsUi.commandsByCategory[category] =
      SelectSeq(ShownCommands, LAMBDA contrib : contrib.category = category)

\* C35: at most one subscription made by the component is live, the previous
\* one was disposed before the new one was created, and after each assignment
\* and each notification of the component commandsByCategory holds every
\* command of queryCommands once, under its own category, in query order.
C35_OneSubscriptionAndGrouping ==
  /\ Cardinality(LiveSubscriptions(settingsUi)) <= 1
  /\ settingsUi.last = "extensionManager" => settingsUi.liveAtSubscribe = 0
  /\ (\/ settingsUi.last = "extensionManager"
      \/ settingsUi.last = "onCommandsChanged" /\ settingsUi.listenerRuns > 0)
       => GroupedInQueryOrder

\* After two assignments, a notification of the second manager has regrouped
\* a list with interleaved categories.
C35_Witness ==
  /\ Len(settingsUi.subscriptions) >= 2
  /\ settingsUi.subscriptions[1].manager # settingsUi.extensionManager
  /\ settingsUi.last = "onCommandsChanged"
  /\ settingsUi.listenerRuns = 1
  /\ Len(ShownCommands) = 4
  /\ Len(settingsUi.commandsByCategory["global"]) = 2

---------------------------------------------------------------------------
(* Properties of SpecAbout *)

\* C36: at most one About tab exists at a time; the command run while the tab
\* exists only opens that tab again and creates none, and a tab is created
\* only when no tab exists: on the first run, or the first run after the
\* tab was closed.
C36_AtMostOneAboutTab ==
  /\ Cardinality(ExistingTabs(aboutExtension)) <= 1
  /\ aboutExtension.last.call = "about:about" =>
       /\ aboutExtension.last.existing = 1 =>
            /\ Len(aboutExtension.tabs) = aboutExtension.last.tabs
            /\ aboutExtension.aboutTab = aboutExtension.last.aboutTab
            /\ aboutExtension.tabs[aboutExtension.aboutTab].opens = aboutExtension.last.opens + 1
            /\ aboutExtension.tabs[aboutExtension.aboutTab].state = "open"
       /\ aboutExtension.last.existing = 0 =>
            /\ Len(aboutExtension.tabs) = aboutExtension.last.tabs + 1
            /\ aboutExtension.aboutTab = Len(aboutExtension.tabs)
       /\ Len(aboutExtension.tabs) > aboutExtension.last.tabs =>
            \A tab \in 1..aboutExtension.last.tabs : aboutExtension.tabs[tab].state = "closed"

\* The command was run twice on the second tab, made after the first was closed.
C36_Witness ==
  /\ Len(aboutExtension.tabs) = 2
  /\ aboutExtension.tabs[1].state = "closed"
  /\ aboutExtension.aboutTab = 2
  /\ aboutExtension.tabs[2].opens = 2
  /\ aboutExtension.last.call = "about:about"
  /\ aboutExtension.last.existing = 1

---------------------------------------------------------------------------
(* Properties of SpecSharedMap *)

TimesSent(change) ==
  Cardinality({i \in 1..Len(sharedMapIpc.sent) : sharedMapIpc.sent[i] = change})

\* C37: a change applied from a SHARED_MAP_EVENT message is never sent over
\* IPC, every change made in this process is sent exactly once, and nothing
\* else is sent.
C37_NoEchoLocalOnce ==
  /\ \A i \in 1..Len(sharedMapIpc.changes) :
       TimesSent(sharedMapIpc.changes[i]) = IF sharedMapIpc.changes[i].isLocalOrigin THEN 1 ELSE 0
  /\ \A i \in 1..Len(sharedMapIpc.sent) :
       \E j \in 1..Len(sharedMapIpc.changes) : sharedMapIpc.changes[j] = sharedMapIpc.sent[i]

\* A change made here was sent, and a later change from IPC, seen by the
\* listener, was not.
C37_Witness ==
  /\ Len(sharedMapIpc.changes) = 2
  /\ sharedMapIpc.changes[1].isLocalOrigin
  /\ ~sharedMapIpc.changes[2].isLocalOrigin
  /\ sharedMapIpc.listening
  /\ Len(sharedMapIpc.sent) = 1

=============================================================================
